---------------------------- MODULE Spec2Model ----------------------------
(***************************************************************************)
(* Model of the map-construction interpreter (DSLMapBuilder and the        *)
(* program loop of DSLMapGenerator), of the shared connectivity functions  *)
(* and of the structural verifier (MapVerifier).                           *)
(*                                                                         *)
(* Coordinates are the source's: 0-based, x is the column, y the row, and  *)
(* the tile buffer is indexed grid[y][x].  Python lists are functions over *)
(* 0..n-1 where the code indexes them and sequences where it iterates.     *)
(***************************************************************************)
EXTENDS Integers, Sequences, FiniteSets, TLC

VARIABLES
    target_width,       \* DSLMapBuilder.target_width
    target_height,      \* DSLMapBuilder.target_height
    grid,               \* DSLMapBuilder.grid: None, or rows of tile characters
    labels,             \* DSLMapBuilder.labels: None, or a set of tags per cell
    entities,           \* DSLMapBuilder.entities: insertion-ordered dict kind -> list
    store,              \* the entity lists themselves (objects the dict refers to)
    checkpoints,        \* DSLMapBuilder.checkpoints: insertion-ordered dict name -> snapshot
    last_checkpoint,    \* DSLMapBuilder.last_checkpoint
    n_commands,         \* len(commands) of the program being executed
    command_index,      \* loop index of _execute_dsl_program
    checkpoint_outputs, \* reports collected by _execute_dsl_program
    pc,                 \* where the driver is: "exec", "failed", "done", "mapped",
                        \* "map_failed", "verified", "crashed"
    prompt,             \* the prompt of the map: prompt.lower().split()
    error,              \* the DSLExecutionError raised by _execute_dsl_program, or None
    map_data,           \* the MapData produced by to_map_data or handed to the verifier
    report,             \* the VerificationResult of the verifier, or None
    llm_queries,        \* how often the verifier has queried its language model
    analysis,           \* what the connectivity functions returned for map_data
    driver,             \* generate_map's locals: iteration, retry budget, last
                        \* successfully executed builder
    twin,               \* two DSLMapBuilder instances given one command list,
                        \* and the clock their exports read
    stroke              \* the locals of one draw_line call of the river command

vars == <<target_width, target_height, grid, labels, entities, store, checkpoints,
          last_checkpoint, n_commands, command_index, checkpoint_outputs, pc,
          prompt, error, map_data, report, llm_queries, analysis, driver, twin, stroke>>

\* Python's None.  An optional scalar is None or Some(v); Value unwraps it.
None == <<>>
Some(v) == <<v>>
Value(o) == o[1]

(***************************************************************************)
(* Bounds of the model.                                                    *)
(***************************************************************************)
SmallWidth == 6
SmallHeight == 5
MaxCmds == 4

(***************************************************************************)
(* Program constants.                                                      *)
(***************************************************************************)
DefaultWidth == 20
DefaultHeight == 15

WALL == "#"
FLOOR == "."
DOOR == "+"
WATER == "~"
NEWLINE == "\n"

TileChars == {WALL, FLOOR, DOOR, WATER}
Accessible == {FLOOR, DOOR}
WallSides == {"north", "south", "east", "west"}

\* dsl_generator.EntityType: the kinds a spawn command may name.
EntityType == {"player", "ogre", "goblin", "shop", "chest", "tomb", "spirit", "human"}

\* shared.models.EntityType: the kinds a MapData entity map may be keyed by.
SharedEntityType == {"player", "ogre", "goblin", "shop", "chest"}

(***************************************************************************)
(* Small helpers for Python idioms.                                        *)
(***************************************************************************)
Min2(a, b) == IF a <= b THEN a ELSE b
Max2(a, b) == IF a >= b THEN a ELSE b
Abs(a) == IF a >= 0 THEN a ELSE 0 - a
SetMin(S) == CHOOSE m \in S : \A k \in S : m <= k
SetMax(S) == CHOOSE m \in S : \A k \in S : m >= k

RECURSIVE SumSeq(_)
SumSeq(s) == IF s = <<>> THEN 0 ELSE Head(s) + SumSeq(Tail(s))

\* list.sort(key=...): a stable sort, as insertion into a sorted prefix.
RECURSIVE InsertByKey(_, _, _)
InsertByKey(sorted, p, k) ==
    IF sorted = <<>> THEN <<p>>
    ELSE IF sorted[Len(sorted)][k] <= p[k] THEN Append(sorted, p)
    ELSE Append(InsertByKey(SubSeq(sorted, 1, Len(sorted) - 1), p, k), sorted[Len(sorted)])

RECURSIVE StableSortByKey(_, _)
StableSortByKey(s, k) ==
    IF s = <<>> THEN <<>>
    ELSE InsertByKey(StableSortByKey(SubSeq(s, 1, Len(s) - 1), k), s[Len(s)], k)

\* The cells of a w x h canvas in row-major order (for yy in range(h): for xx in range(w)).
RowMajor(w, h) == [k \in 1..(w * h) |-> <<(k - 1) % w, (k - 1) \div w>>]

(***************************************************************************)
(* DSLMapBuilder.  A builder value is a record of the object's fields; the *)
(* commands are functions from a builder to a result                       *)
(* [ok, b, out]: ok = FALSE is a raised DSLExecutionError whose message is *)
(* out and b the builder as the command left it.                           *)
(***************************************************************************)
NewBuilder(w, h) ==
    [target_width |-> w, target_height |-> h, grid |-> None, labels |-> None,
     entities |-> <<>>, store |-> <<>>, checkpoints |-> <<>>, last_checkpoint |-> None]

Ok(b, out) == [ok |-> TRUE, b |-> b, out |-> out]
Raise(b, msg) == [ok |-> FALSE, b |-> b, out |-> msg]

\* "if not self.grid": None and the empty list are both falsy.
NoGrid(b) == b.grid = None \/ DOMAIN b.grid = {}

\* A check of the rectangle's first corner only.
validate_origin(b, x, y, width, height) ==
    /\ x >= 0
    /\ y >= 0
    /\ x < b.target_width
    /\ y < b.target_height

validate_bounds(b, x, y, width, height) ==
    /\ x >= 0
    /\ y >= 0
    /\ x + width <= b.target_width
    /\ y + height <= b.target_height

in_bounds(b, x, y) ==
    /\ 0 <= x /\ x < b.target_width
    /\ 0 <= y /\ y < b.target_height

\* A grid whose rows are one cell short: range(width - 1) for range(width).
NewGridShortRows(width, height) ==
    [i \in 0..(height - 1) |->
        [j \in 0..(width - 2) |->
            IF 1 <= i /\ i < height - 1 /\ 1 <= j /\ j < width - 1
            THEN FLOOR ELSE WALL]]

\* The rows and cells _cmd_grid builds: all '#', then '.' inside the ring.
NewGrid(width, height) ==
    [i \in 0..(height - 1) |->
        [j \in 0..(width - 1) |->
            IF 1 <= i /\ i < height - 1 /\ 1 <= j /\ j < width - 1
            THEN FLOOR ELSE WALL]]

\* A grid command that keeps the label storage it finds.
cmd_grid_keeping_labels(b, width, height) ==
    IF width # b.target_width \/ height # b.target_height
    THEN Raise(b, "Grid must be")
    ELSE Ok([b EXCEPT !.grid = NewGrid(width, height),
                      !.labels = IF b.labels = None
                                 THEN [i \in 0..(height - 1) |-> [j \in 0..(width - 1) |-> {}]]
                                 ELSE b.labels],
            "Created grid")

\* A grid command that drops the canvas before it compares the sizes.
cmd_grid_clear_first(b, width, height) ==
    IF width # b.target_width \/ height # b.target_height
    THEN Raise([b EXCEPT !.grid = None, !.labels = None], "Grid must be")
    ELSE Ok([b EXCEPT !.grid = NewGrid(width, height),
                      !.labels = [i \in 0..(height - 1) |-> [j \in 0..(width - 1) |-> {}]]],
            "Created grid")

\* A grid command that starts the builder anew: entities and checkpoints go too.
cmd_grid_new_session(b, width, height) ==
    IF width # b.target_width \/ height # b.target_height
    THEN Raise(b, "Grid must be")
    ELSE Ok([b EXCEPT !.grid = NewGrid(width, height),
                      !.labels = [i \in 0..(height - 1) |-> [j \in 0..(width - 1) |-> {}]],
                      !.entities = <<>>, !.store = <<>>,
                      !.checkpoints = <<>>, !.last_checkpoint = None],
            "Created grid")

cmd_grid(b, width, height) ==
    IF width # b.target_width \/ height # b.target_height
    THEN Raise(b, "Grid must be")
    ELSE Ok([b EXCEPT !.grid = NewGrid(width, height),
                      !.labels = [i \in 0..(height - 1) |-> [j \in 0..(width - 1) |-> {}]]],
            "Created grid")

\* Label helpers.
RoomLabel(name) == <<"room", name>>
WallLabel(side) == <<"wall", side>>
WallIndexLabel(idx) == <<"wall_index", idx>>
InteriorLabel == <<"interior">>
IsRoomLabel(lab) == lab[1] \in {"room", "wall", "wall_index", "interior"}

\* A clearing that keeps every tag.
clear_no_labels(labs) == labs

clear_room_labels(labs) == labs \ {lab \in labs : IsRoomLabel(lab)}

\* The tile and the tags _cmd_room gives cell (j, i) of the rectangle.
RoomTile(i, j, x, y, width, height) ==
    IF i = y \/ i = y + height - 1 THEN WALL
    ELSE IF j = x \/ j = x + width - 1 THEN WALL
    ELSE FLOOR

RoomTags(name, i, j, x, y, width, height) ==
    IF i = y \/ i = y + height - 1
    THEN {RoomLabel(name), WallLabel(IF i = y THEN "north" ELSE "south"), WallIndexLabel(j - x)}
    ELSE IF j = x \/ j = x + width - 1
    THEN {RoomLabel(name), WallLabel(IF j = x THEN "west" ELSE "east"), WallIndexLabel(i - y)}
    ELSE {RoomLabel(name), InteriorLabel}

InRect(i, j, x, y, width, height) ==
    /\ y <= i /\ i < y + height
    /\ x <= j /\ j < x + width

\* A room that is drawn as far as it fits before its bounds are checked.
cmd_room_clipped(b, name, x, y, width, height) ==
    IF NoGrid(b) THEN Raise(b, "Must create grid first")
    ELSE LET drawn == [b EXCEPT
                         !.grid = [i \in DOMAIN b.grid |-> [j \in DOMAIN b.grid[i] |->
                                     IF InRect(i, j, x, y, width, height)
                                     THEN RoomTile(i, j, x, y, width, height)
                                     ELSE b.grid[i][j]]],
                         !.labels = [i \in DOMAIN b.labels |-> [j \in DOMAIN b.labels[i] |->
                                     IF InRect(i, j, x, y, width, height)
                                     THEN clear_room_labels(b.labels[i][j])
                                              \cup RoomTags(name, i, j, x, y, width, height)
                                     ELSE b.labels[i][j]]]]
         IN  IF ~validate_bounds(b, x, y, width, height) THEN Raise(drawn, "exceeds bounds")
             ELSE Ok(drawn, "Created room")

cmd_room(b, name, x, y, width, height) ==
    IF NoGrid(b) THEN Raise(b, "Must create grid first")
    ELSE IF ~validate_bounds(b, x, y, width, height) THEN Raise(b, "exceeds bounds")
    ELSE Ok([b EXCEPT
               !.grid = [i \in DOMAIN b.grid |-> [j \in DOMAIN b.grid[i] |->
                           IF InRect(i, j, x, y, width, height)
                           THEN RoomTile(i, j, x, y, width, height)
                           ELSE b.grid[i][j]]],
               !.labels = [i \in DOMAIN b.labels |-> [j \in DOMAIN b.labels[i] |->
                           IF InRect(i, j, x, y, width, height)
                           THEN clear_room_labels(b.labels[i][j])
                                    \cup RoomTags(name, i, j, x, y, width, height)
                           ELSE b.labels[i][j]]]],
            "Created room")

get_room_wall_coords(b, room, wall) ==
    IF b.labels = None THEN <<>>
    ELSE LET found == SelectSeq(RowMajor(b.target_width, b.target_height),
                        LAMBDA p : /\ RoomLabel(room) \in b.labels[p[2]][p[1]]
                                   /\ WallLabel(wall) \in b.labels[p[2]][p[1]])
         IN  IF wall \in {"north", "south"}
             THEN StableSortByKey(found, 1)
             ELSE StableSortByKey(found, 2)

\* An interior lookup that ignores what tile the cell holds now.
interior_coords_any_tile(b, room) ==
    IF b.labels = None THEN <<>>
    ELSE SelectSeq(RowMajor(b.target_width, b.target_height),
                   LAMBDA p : /\ RoomLabel(room) \in b.labels[p[2]][p[1]]
                              /\ InteriorLabel \in b.labels[p[2]][p[1]])

get_room_interior_coords(b, room) ==
    IF b.labels = None THEN <<>>
    ELSE SelectSeq(RowMajor(b.target_width, b.target_height),
                   LAMBDA p : /\ RoomLabel(room) \in b.labels[p[2]][p[1]]
                              /\ InteriorLabel \in b.labels[p[2]][p[1]]
                              /\ b.grid[p[2]][p[1]] \in Accessible)

\* self.grid[y][x] = t
SetTile(g, x, y, t) == [g EXCEPT ![y][x] = t]


\* Python floor division by a positive divisor.
FloorDiv(a, d) == IF a >= 0 THEN a \div d ELSE 0 - ((d - 1 - a) \div d)

\* A door_on that takes offsets from 0 on.
cmd_door_on_from_zero(b, room, wall, at, offset) ==
    IF NoGrid(b) THEN Raise(b, "Must create grid first")
    ELSE LET coords == get_room_wall_coords(b, room, wall)
             n == Len(coords)
         IN  IF n = 0 THEN Raise(b, "not found")
             ELSE IF ~(n > 2) THEN Raise(b, "Wall too short")
             ELSE IF offset # None /\ (Value(offset) < 0 \/ Value(offset) >= n - 1)
                  THEN Raise(b, "Invalid offset")
             ELSE LET center == (n - 1) \div 2
                      idx == IF offset # None THEN Value(offset)
                             ELSE IF at = "start" THEN 1
                             ELSE IF at = "end" THEN n - 2
                             ELSE IF center = 0 THEN 1
                             ELSE IF center >= n - 1 THEN n - 2
                             ELSE center
                      p == coords[idx + 1]
                  IN  Ok([b EXCEPT !.grid = SetTile(b.grid, p[1], p[2], DOOR)],
                         "Placed door_on")

\* A door_on whose "end" is the last cell of the list.
cmd_door_on_end_at_last(b, room, wall, at, offset) ==
    IF NoGrid(b) THEN Raise(b, "Must create grid first")
    ELSE LET coords == get_room_wall_coords(b, room, wall)
             n == Len(coords)
         IN  IF n = 0 THEN Raise(b, "not found")
             ELSE IF ~(n > 2) THEN Raise(b, "Wall too short")
             ELSE IF offset # None /\ (Value(offset) <= 0 \/ Value(offset) >= n - 1)
                  THEN Raise(b, "Invalid offset")
             ELSE LET center == (n - 1) \div 2
                      idx == IF offset # None THEN Value(offset)
                             ELSE IF at = "start" THEN 1
                             ELSE IF at = "end" THEN n - 1
                             ELSE IF center = 0 THEN 1
                             ELSE IF center >= n - 1 THEN n - 2
                             ELSE center
                      p == coords[idx + 1]
                  IN  Ok([b EXCEPT !.grid = SetTile(b.grid, p[1], p[2], DOOR)],
                         "Placed door_on")

cmd_door_on(b, room, wall, at, offset) ==
    IF NoGrid(b) THEN Raise(b, "Must create grid first")
    ELSE LET coords == get_room_wall_coords(b, room, wall)
             n == Len(coords)
         IN  IF n = 0 THEN Raise(b, "not found")
             ELSE IF ~(n > 2) THEN Raise(b, "Wall too short")
             ELSE IF offset # None /\ (Value(offset) <= 0 \/ Value(offset) >= n - 1)
                  THEN Raise(b, "Invalid offset")
             ELSE LET center == (n - 1) \div 2
                      idx == IF offset # None THEN Value(offset)
                             ELSE IF at = "start" THEN 1
                             ELSE IF at = "end" THEN n - 2
                             ELSE IF center = 0 THEN 1
                             ELSE IF center >= n - 1 THEN n - 2
                             ELSE center
                      p == coords[idx + 1]
                  IN  Ok([b EXCEPT !.grid = SetTile(b.grid, p[1], p[2], DOOR)],
                         "Placed door_on")

pick_idx(n) ==
    IF n <= 1 THEN 0
    ELSE IF n >= 3 THEN Max2(1, Min2((n - 1) \div 2, n - 2))
    ELSE Min2((n - 1) \div 2, n - 1)

outside(x, y, wall_side) ==
    IF wall_side = "north" THEN <<x, y - 1>>
    ELSE IF wall_side = "south" THEN <<x, y + 1>>
    ELSE IF wall_side = "west" THEN <<x - 1, y>>
    ELSE <<x + 1, y>>

\* A corridor that stops at the corner: the run along row y0 only.
carve_row(b, g, x0, y0, x1, y1) ==
    [i \in DOMAIN g |-> [j \in DOMAIN g[i] |->
        IF /\ i = y0
           /\ Min2(x0, x1) <= j /\ j <= Max2(x0, x1)
           /\ in_bounds(b, j, y0)
        THEN FLOOR ELSE g[i][j]]]

\* carve_line: the run along row y0 from x0 to x1, then along column x1 from y0 to y1.
carve_line(b, g, x0, y0, x1, y1) ==
    [i \in DOMAIN g |-> [j \in DOMAIN g[i] |->
        IF \/ /\ i = y0
              /\ Min2(x0, x1) <= j /\ j <= Max2(x0, x1)
              /\ in_bounds(b, j, y0)
           \/ /\ j = x1
              /\ Min2(y0, y1) <= i /\ i <= Max2(y0, y1)
              /\ in_bounds(b, x1, i)
        THEN FLOOR ELSE g[i][j]]]

cmd_connect_by_walls(b, a, a_wall, bname, b_wall, style) ==
    IF NoGrid(b) THEN Raise(b, "Must create grid first")
    ELSE LET a_coords == get_room_wall_coords(b, a, a_wall)
             b_coords == get_room_wall_coords(b, bname, b_wall)
         IN  IF a_coords = <<>> \/ b_coords = <<>>
             THEN Raise(b, "Could not find walls to connect")
             ELSE LET pa == a_coords[pick_idx(Len(a_coords)) + 1]
                      pb == b_coords[pick_idx(Len(b_coords)) + 1]
                      doors == SetTile(SetTile(b.grid, pa[1], pa[2], DOOR), pb[1], pb[2], DOOR)
                      s == outside(pa[1], pa[2], a_wall)
                      t == outside(pb[1], pb[2], b_wall)
                      carved ==
                          IF style = "I"
                          THEN carve_line(b, doors, s[1], s[2], t[1], t[2])
                          ELSE carve_line(b, carve_line(b, doors, s[1], s[2], t[1], s[2]),
                                          t[1], s[2], t[1], t[2])
                  IN  Ok([b EXCEPT !.grid = carved], "Connected")

\* min(interior, key=...): the first element with the least key.
FirstMin(s, Key(_)) ==
    LET least == SetMin({Key(s[k]) : k \in 1..Len(s)})
    IN  s[SetMin({k \in 1..Len(s) : Key(s[k]) = least})]

\* entities: the insertion-ordered dict, as a sequence of [kind, ref]; ref indexes store.
DictHas(d, key) == \E k \in 1..Len(d) : d[k].key = key
DictGet(d, key) == d[CHOOSE k \in 1..Len(d) : d[k].key = key].val
DictSet(d, key, val) ==
    IF DictHas(d, key)
    THEN [k \in 1..Len(d) |-> IF d[k].key = key THEN [key |-> key, val |-> val] ELSE d[k]]
    ELSE Append(d, [key |-> key, val |-> val])
DictKeys(d) == [k \in 1..Len(d) |-> d[k].key]

EntityData(x, y, properties) == [x |-> x, y |-> y, properties |-> properties]

\* The scan of the no-room branch: rows 1..h-2, columns 1..w-2, first Floor/Door cell.
ScanInterior(b) ==
    SelectSeq(RowMajor(b.target_width, b.target_height),
              LAMBDA p : /\ 1 <= p[2] /\ p[2] < b.target_height - 1
                         /\ 1 <= p[1] /\ p[1] < b.target_width - 1
                         /\ b.grid[p[2]][p[1]] \in Accessible)

AppendEntity(b, kind, e) ==
    LET withKey == IF DictHas(b.entities, kind) THEN b
                   ELSE [b EXCEPT !.entities = Append(b.entities,
                                                      [key |-> kind, val |-> Len(b.store) + 1]),
                                  !.store = Append(b.store, <<>>)]
        ref == DictGet(withKey.entities, kind)
    IN  [withKey EXCEPT !.store[ref] = Append(withKey.store[ref], e)]

\* A spawn that never looks at the room: the canvas centre, or the first
\* walkable cell of the scan.
cmd_spawn_in_anywhere(b, entity_type, in_room, at, dx, dy, properties) ==
    IF NoGrid(b) THEN Raise(b, "Must create grid first")
    ELSE LET x == b.target_width \div 2
             y == b.target_height \div 2
             scan == ScanInterior(b)
             at_ == IF b.grid[y][x] \notin Accessible /\ scan # <<>>
                    THEN scan[1] ELSE <<x, y>>
         IN  Ok(AppendEntity(b, entity_type, EntityData(at_[1], at_[2], properties)),
                <<"Spawned", entity_type, at_[1], at_[2]>>)

cmd_spawn_in(b, entity_type, in_room, at, dx, dy, properties) ==
    IF NoGrid(b) THEN Raise(b, "Must create grid first")
    ELSE IF in_room # None /\ Value(in_room) # ""
    THEN LET interior == get_room_interior_coords(b, Value(in_room))
         IN  IF interior = <<>> THEN Raise(b, "has no interior for spawning")
             ELSE LET xs == {interior[k][1] : k \in 1..Len(interior)}
                      ys == {interior[k][2] : k \in 1..Len(interior)}
                      cx == (SetMin(xs) + SetMax(xs)) \div 2
                      cy == (SetMin(ys) + SetMax(ys)) \div 2
                      Dist(p) == Abs(p[1] - cx) + Abs(p[2] - cy)
                      best == FirstMin(interior, Dist)
                      x == best[1] + dx
                      y == best[2] + dy
                      at_ == IF ~in_bounds(b, x, y) \/ b.grid[y][x] \notin Accessible
                             THEN best ELSE <<x, y>>
                  IN  Ok(AppendEntity(b, entity_type, EntityData(at_[1], at_[2], properties)),
                         <<"Spawned", entity_type, at_[1], at_[2]>>)
    ELSE LET x == b.target_width \div 2
             y == b.target_height \div 2
             scan == ScanInterior(b)
             at_ == IF b.grid[y][x] \notin Accessible /\ scan # <<>>
                    THEN scan[1] ELSE <<x, y>>
         IN  Ok(AppendEntity(b, entity_type, EntityData(at_[1], at_[2], properties)),
                <<"Spawned", entity_type, at_[1], at_[2]>>)

\* A clip to the canvas, border ring included.
InsideCanvas(b, xx, yy) ==
    /\ 0 <= xx /\ xx <= b.target_width - 1
    /\ 0 <= yy /\ yy <= b.target_height - 1

\* The interior of the border ring: 0 < xx < w-1 and 0 < yy < h-1.
InsideRing(b, xx, yy) ==
    /\ 0 < xx /\ xx < b.target_width - 1
    /\ 0 < yy /\ yy < b.target_height - 1

cmd_water_area(b, x, y, shape, radius, width, height) ==
    IF NoGrid(b) THEN Raise(b, "Must create grid first")
    ELSE IF shape = "circle"
    THEN Ok([b EXCEPT !.grid = [yy \in DOMAIN b.grid |-> [xx \in DOMAIN b.grid[yy] |->
                IF /\ y - radius <= yy /\ yy <= y + radius
                   /\ x - radius <= xx /\ xx <= x + radius
                   /\ InsideRing(b, xx, yy)
                   /\ (xx - x) * (xx - x) + (yy - y) * (yy - y) <= radius * radius
                THEN WATER ELSE b.grid[yy][xx]]]],
            "Created water area")
    ELSE IF shape = "rectangle"
    THEN LET x0 == x - FloorDiv(width, 2)
             y0 == y - FloorDiv(height, 2)
         IN  Ok([b EXCEPT !.grid = [yy \in DOMAIN b.grid |-> [xx \in DOMAIN b.grid[yy] |->
                    IF /\ y0 <= yy /\ yy < y0 + height
                       /\ x0 <= xx /\ xx < x0 + width
                       /\ InsideRing(b, xx, yy)
                    THEN WATER ELSE b.grid[yy][xx]]]],
                "Created water area")
    ELSE Raise(b, "Unknown water shape")

\* The locals of a draw_line that steps towards growing x and y whatever the
\* second point is.
line_start_forward(x0, y0, x1, y1, half_width) ==
    [x1 |-> x1, y1 |-> y1, dx |-> Abs(x1 - x0), dy |-> 0 - Abs(y1 - y0),
     sx |-> 1, sy |-> 1, err |-> Abs(x1 - x0) - Abs(y1 - y0), x |-> x0, y |-> y0,
     half_width |-> half_width, x0 |-> x0, y0 |-> y0, passes |-> 0, returned |-> FALSE]

\* The locals of draw_line(x0, y0, x1, y1) when its loop is entered; passes
\* counts the passes of the loop.
line_start(x0, y0, x1, y1, half_width) ==
    [x1 |-> x1, y1 |-> y1, dx |-> Abs(x1 - x0), dy |-> 0 - Abs(y1 - y0),
     sx |-> IF x0 < x1 THEN 1 ELSE -1, sy |-> IF y0 < y1 THEN 1 ELSE -1,
     err |-> Abs(x1 - x0) - Abs(y1 - y0), x |-> x0, y |-> y0,
     half_width |-> half_width, x0 |-> x0, y0 |-> y0, passes |-> 0, returned |-> FALSE]

\* One pass of "while True" after the brush: the break at the second point, or
\* the step of x, y and err.
line_step(s) ==
    LET e2 == 2 * s.err
        stepx == e2 >= s.dy
        stepy == e2 <= s.dx
    IN  IF s.x = s.x1 /\ s.y = s.y1
        THEN [s EXCEPT !.passes = @ + 1, !.returned = TRUE]
        ELSE [s EXCEPT !.passes = @ + 1,
                       !.err = (IF stepx THEN s.err + s.dy ELSE s.err)
                                 + (IF stepy THEN s.dx ELSE 0),
                       !.x = IF stepx THEN s.x + s.sx ELSE s.x,
                       !.y = IF stepy THEN s.y + s.sy ELSE s.y]

\* The square brush of draw_line at (x, y).
Brush(b, g, x, y, half_width) ==
    [ny \in DOMAIN g |-> [nx \in DOMAIN g[ny] |->
        IF /\ y - half_width <= ny /\ ny <= y + half_width
           /\ x - half_width <= nx /\ nx <= x + half_width
           /\ InsideRing(b, nx, ny)
        THEN WATER ELSE g[ny][nx]]]

\* The "while True" loop of draw_line, from the state (x, y, err).
RECURSIVE draw_loop(_, _, _, _, _, _, _, _)
draw_loop(b, g, half_width, x, y, err, x1, line) ==
    LET y1 == line.y1
        dx == line.dx
        dy == line.dy
        sx == line.sx
        sy == line.sy
        painted == Brush(b, g, x, y, half_width)
        e2 == 2 * err
        err1 == IF e2 >= dy THEN err + dy ELSE err
        xn == IF e2 >= dy THEN x + sx ELSE x
        err2 == IF e2 <= dx THEN err1 + dx ELSE err1
        yn == IF e2 <= dx THEN y + sy ELSE y
    IN  IF x = x1 /\ y = y1 THEN painted
        ELSE draw_loop(b, painted, half_width, xn, yn, err2, x1, line)

draw_line(b, g, half_width, x0, y0, x1, y1) ==
    LET dx == Abs(x1 - x0)
        dy == 0 - Abs(y1 - y0)
        sx == IF x0 < x1 THEN 1 ELSE -1
        sy == IF y0 < y1 THEN 1 ELSE -1
    IN  draw_loop(b, g, half_width, x0, y0, dx + dy, x1,
                  [y1 |-> y1, dx |-> dx, dy |-> dy, sx |-> sx, sy |-> sy])

RECURSIVE draw_segments(_, _, _, _, _)
draw_segments(b, g, half_width, points, i) ==
    IF i > Len(points) - 1 THEN g
    ELSE draw_segments(b,
            draw_line(b, g, half_width, points[i][1], points[i][2],
                      points[i + 1][1], points[i + 1][2]),
            half_width, points, i + 1)

\* A river that counts its points before it looks for the grid.
cmd_river_points_first(b, points, width) ==
    IF Len(points) < 2 THEN Raise(b, "River requires at least 2 points")
    ELSE IF NoGrid(b) THEN Raise(b, "Must create grid first")
    ELSE Ok([b EXCEPT !.grid = draw_segments(b, b.grid, Max2(0, FloorDiv(width - 1, 2)),
                                             points, 1)],
            "Created river")

cmd_river(b, points, width) ==
    IF NoGrid(b) THEN Raise(b, "Must create grid first")
    ELSE IF Len(points) < 2 THEN Raise(b, "River requires at least 2 points")
    ELSE Ok([b EXCEPT !.grid = draw_segments(b, b.grid, Max2(0, FloorDiv(width - 1, 2)),
                                             points, 1)],
            "Created river")


(***************************************************************************)
(* Tile strings.  A tile string is a sequence of characters; rows are      *)
(* joined with "\n" by the producer and recovered with strip().split("\n") *)
(* by every consumer.                                                      *)
(***************************************************************************)
Whitespace == {NEWLINE, " "}

\* ''.join(row) for one row of the grid.
JoinRow(row) == <<>> \o [k \in 1..Cardinality(DOMAIN row) |-> row[k - 1]]

\* '\n'.join(''.join(row) for row in grid)
RECURSIVE JoinRowsFrom(_, _)
JoinRowsFrom(g, i) ==
    IF i > Cardinality(DOMAIN g) - 1 THEN <<>>
    ELSE IF i = Cardinality(DOMAIN g) - 1 THEN JoinRow(g[i])
    ELSE JoinRow(g[i]) \o <<NEWLINE>> \o JoinRowsFrom(g, i + 1)

JoinRows(g) == JoinRowsFrom(g, 0)

\* str.strip()
RECURSIVE LStrip(_)
LStrip(s) == IF s # <<>> /\ Head(s) \in Whitespace THEN LStrip(Tail(s)) ELSE s

RECURSIVE RStrip(_)
RStrip(s) ==
    IF s # <<>> /\ s[Len(s)] \in Whitespace THEN RStrip(SubSeq(s, 1, Len(s) - 1)) ELSE s

Strip(s) == RStrip(LStrip(s))

\* str.split('\n'): the pieces between the newlines; never empty, "" splits to [""].
SplitLines(s) ==
    LET breaks == {k \in 1..Len(s) : s[k] = NEWLINE}
        n == Cardinality(breaks)
        \* the k-th newline, with the two ends of the string as the 0th and the last
        Break(k) == IF k = 0 THEN 0
                    ELSE IF k = n + 1 THEN Len(s) + 1
                    ELSE CHOOSE b \in breaks : Cardinality({c \in breaks : c <= b}) = k
        \* (appending to <<>> has TLC hold the list as a value, not as a rule)
    IN  <<>> \o [k \in 1..(n + 1) |-> SubSeq(s, Break(k - 1) + 1, Break(k) - 1)]

Lines(tiles) == SplitLines(Strip(tiles))

\* line.count(c)
CountIn(line, chars) == Cardinality({k \in 1..Len(line) : line[k] \in chars})

\* sum(line.count(..) for line in lines)
CountTiles(lines, chars) == SumSeq([k \in 1..Len(lines) |-> CountIn(lines[k], chars)])

\* lines[y][x] for 0-based x, y.
At(lines, x, y) == lines[y + 1][x + 1]

(***************************************************************************)
(* shared/connectivity.py and the copy of the search in shared/utils.py.   *)
(***************************************************************************)
\* The first cell whose character is in walk, in row-major order, or None.
FirstStart(lines, walk) ==
    LET rows == {y \in 1..Len(lines) : \E x \in 1..Len(lines[y]) : lines[y][x] \in walk}
    IN  IF rows = {} THEN None
        ELSE LET y == SetMin(rows)
                 x == SetMin({k \in 1..Len(lines[y]) : lines[y][k] \in walk})
             IN  <<x - 1, y - 1>>

Dirs4 == <<<<0, 1>>, <<0, -1>>, <<1, 0>>, <<-1, 0>>>>

\* The cells one round of the search appends: the queue is first-in first-out, so
\* the cells leave it in rounds; a round takes the cells of frontier off the queue
\* and visits their unvisited walkable neighbours within the declared bounds.
VisitNeighbours(lines, width, height, walk, visited, frontier) ==
    {q \in {<<p[1] + Dirs4[k][1], p[2] + Dirs4[k][2]>> :
                p \in frontier, k \in 1..Len(Dirs4)} :
        /\ 0 <= q[1] /\ q[1] < width /\ 0 <= q[2] /\ q[2] < height
        /\ q \notin visited
        /\ At(lines, q[1], q[2]) \in walk}

\* "while queue: x, y = queue.pop(0) ...": the visited set when the queue is empty.
RECURSIVE BfsLoop(_, _, _, _, _, _)
BfsLoop(lines, width, height, walk, visited, frontier) ==
    IF frontier = {} THEN visited
    ELSE LET new == VisitNeighbours(lines, width, height, walk, visited, frontier)
         IN  BfsLoop(lines, width, height, walk, visited \cup new, new)

BfsConnected(lines, width, height, walk) ==
    IF Len(lines) # height THEN FALSE
    ELSE IF \E y \in 1..Len(lines) : Len(lines[y]) # width THEN FALSE
    ELSE LET start == FirstStart(lines, walk)
         IN  IF start = None THEN FALSE
             ELSE Cardinality(BfsLoop(lines, width, height, walk, {start}, {start}))
                    = CountTiles(lines, walk)

\* A search that takes only floors for accessible.
check_floor_connectivity(tiles, width, height) ==
    BfsConnected(Lines(tiles), width, height, {FLOOR})

\* connectivity.check_map_connectivity: floors and doors are accessible.
check_map_connectivity(tiles, width, height) ==
    BfsConnected(Lines(tiles), width, height, {FLOOR, DOOR})

\* utils.validate_map_connectivity: only floors are.
validate_map_connectivity(tiles, width, height) ==
    BfsConnected(Lines(tiles), width, height, {FLOOR})

\* The neighbour order of the two flood fills.
FillDirs == <<<<-1, 0>>, <<1, 0>>, <<0, -1>>, <<0, 1>>>>

\* The neighbours of p a flood fill pushes: within the declared bounds,
\* accessible and not visited, in the order of FillDirs.
PushNeighbours(lines, width, height, visited, p) ==
    SelectSeq([k \in 1..Len(FillDirs) |-> <<p[1] + FillDirs[k][1], p[2] + FillDirs[k][2]>>],
              LAMBDA q : /\ 0 <= q[1] /\ q[1] < width
                         /\ 0 <= q[2] /\ q[2] < height
                         /\ q \notin visited
                         /\ At(lines, q[1], q[2]) \in Accessible)

\* "while stack: x, y = stack.pop() ...": the cells in the order the fill
\* visits them, and the visited set, when the stack is empty.
RECURSIVE FloodFill(_, _, _, _, _, _)
FloodFill(lines, width, height, stack, visited, region_tiles) ==
    IF stack = <<>> THEN [visited |-> visited, region_tiles |-> region_tiles]
    ELSE LET p == stack[Len(stack)]
             rest == SubSeq(stack, 1, Len(stack) - 1)
         IN  IF p \in visited \/ At(lines, p[1], p[2]) \notin Accessible
             THEN FloodFill(lines, width, height, rest, visited, region_tiles)
             ELSE FloodFill(lines, width, height,
                            rest \o PushNeighbours(lines, width, height,
                                                   visited \cup {p}, p),
                            visited \cup {p}, Append(region_tiles, p))

\* connectivity.count_reachable_tiles
count_reachable_tiles(tiles, width, height) ==
    LET lines == Lines(tiles)
    IN  IF Len(lines) # height THEN 0
        ELSE LET start == FirstStart(lines, Accessible)
             IN  IF start = None THEN 0
                 ELSE Len(FloodFill(lines, width, height, <<start>>, {}, <<>>).region_tiles)

\* A region record: the tiles in visiting order, the rounded-down mean of
\* their coordinates, their number.
Region(region_tiles) ==
    [tiles |-> region_tiles,
     center_x |-> SumSeq([k \in 1..Len(region_tiles) |-> region_tiles[k][1]])
                    \div Len(region_tiles),
     center_y |-> SumSeq([k \in 1..Len(region_tiles) |-> region_tiles[k][2]])
                    \div Len(region_tiles),
     size |-> Len(region_tiles)]

\* "for start_x, start_y in accessible_tiles: ...": the regions in the order
\* they are found.
RECURSIVE RegionsFrom(_, _, _, _, _, _)
RegionsFrom(lines, width, height, accessible_tiles, k, visited) ==
    IF k > Len(accessible_tiles) THEN <<>>
    ELSE IF accessible_tiles[k] \in visited
    THEN RegionsFrom(lines, width, height, accessible_tiles, k + 1, visited)
    ELSE LET fill == FloodFill(lines, width, height, <<accessible_tiles[k]>>, visited, <<>>)
         IN  <<Region(fill.region_tiles)>>
               \o RegionsFrom(lines, width, height, accessible_tiles, k + 1, fill.visited)

\* sorted(regions, key=size, reverse=True): stable, the larger first.
RECURSIVE InsertBySize(_, _)
InsertBySize(sorted, r) ==
    IF sorted = <<>> THEN <<r>>
    ELSE IF sorted[Len(sorted)].size >= r.size THEN Append(sorted, r)
    ELSE Append(InsertBySize(SubSeq(sorted, 1, Len(sorted) - 1), r), sorted[Len(sorted)])

RECURSIVE SortedBySize(_)
SortedBySize(s) ==
    IF s = <<>> THEN <<>>
    ELSE InsertBySize(SortedBySize(SubSeq(s, 1, Len(s) - 1)), s[Len(s)])

\* The regions in the order they are found, unsorted.
regions_as_found(tiles, width, height) ==
    LET lines == Lines(tiles)
    IN  IF Len(lines) # height THEN <<>>
        ELSE RegionsFrom(lines, width, height,
                         SelectSeq(RowMajor(width, height),
                                   LAMBDA p : At(lines, p[1], p[2]) \in Accessible),
                         1, {})

\* connectivity.find_isolated_regions
find_isolated_regions(tiles, width, height) ==
    LET lines == Lines(tiles)
    IN  IF Len(lines) # height THEN <<>>
        ELSE SortedBySize(RegionsFrom(lines, width, height,
                                      SelectSeq(RowMajor(width, height),
                                                LAMBDA p : At(lines, p[1], p[2]) \in Accessible),
                                      1, {}))

\* connectivity.get_connectivity_stats; the percentage is kept as the fraction
\* it is computed from.
get_connectivity_stats(tiles, width, height) ==
    LET total_accessible == CountTiles(Lines(tiles), Accessible)
        reachable == count_reachable_tiles(tiles, width, height)
        isolated_regions == find_isolated_regions(tiles, width, height)
    IN  [total_accessible |-> total_accessible,
         reachable |-> reachable,
         isolated |-> total_accessible - reachable,
         connectivity_percentage |-> IF total_accessible > 0
                                     THEN <<reachable * 100, total_accessible>>
                                     ELSE <<0, 1>>,
         fully_connected |-> reachable = total_accessible,
         isolated_regions |-> isolated_regions,
         region_count |-> Len(isolated_regions)]

\* utils.validate_map_dimensions: (valid, errors), the errors as the rows at fault.
validate_map_dimensions(tiles, width, height) ==
    LET lines == Lines(tiles)
        errors == (IF Len(lines) # height THEN {<<"rows", Len(lines)>>} ELSE {})
                  \cup {<<"row", i - 1>> : i \in {k \in 1..Len(lines) : Len(lines[k]) # width}}
    IN  [valid |-> errors = {}, errors |-> errors]

\* utils.count_tiles: str.count over the whole string.
count_tiles(tiles) ==
    [wall |-> CountIn(tiles, {WALL}), floor |-> CountIn(tiles, {FLOOR}),
     door |-> CountIn(tiles, {DOOR}), water |-> CountIn(tiles, {WATER})]

(***************************************************************************)
(* DSLMapBuilder: checkpoints and the conversion to MapData.               *)
(***************************************************************************)
\* The lists an entity dict refers to, read through the store.
EntitiesValue(ents, st) ==
    [k \in 1..Len(ents) |-> [key |-> ents[k].key, val |-> st[ents[k].val]]]

TotalEntities(ents, st) == SumSeq([k \in 1..Len(ents) |-> Len(st[ents[k].val])])

CountOf(ents, st, kind) == IF DictHas(ents, kind) THEN Len(st[DictGet(ents, kind)]) ELSE 0

GridCount(g, c) == Cardinality({p \in (DOMAIN g) \X (DOMAIN g[0]) : g[p[1]][p[2]] = c})

\* A checkpoint that also forgets which room each cell belongs to.
cmd_checkpoint_dropping_labels(b, name, verify_connectivity, verify_entities, full_verification, stats) ==
    IF NoGrid(b) THEN Raise(b, "Cannot checkpoint without grid")
    ELSE LET checkpoint_data ==
                 [grid_state |-> b.grid,          \* [row[:] for row in self.grid]
                  entities_state |-> b.entities]  \* dict(self.entities): the lists are shared
             connected == check_map_connectivity(JoinRows(b.grid), b.target_width,
                                                 b.target_height)
             has_player == CountOf(b.entities, b.store, "player") = 1
             rep == [name |-> name,
                     map |-> JoinRows(b.grid),
                     stats |-> IF stats \/ full_verification
                               THEN [walls |-> GridCount(b.grid, WALL),
                                     floors |-> GridCount(b.grid, FLOOR),
                                     doors |-> GridCount(b.grid, DOOR),
                                     water |-> GridCount(b.grid, WATER)]
                               ELSE None,
                     connectivity |-> IF verify_connectivity \/ full_verification
                                      THEN Some(connected) ELSE None,
                     entities |-> IF verify_entities \/ full_verification
                                  THEN [total |-> TotalEntities(b.entities, b.store),
                                        has_player |-> has_player]
                                  ELSE None]
         IN  Ok([b EXCEPT !.checkpoints = DictSet(b.checkpoints, name, checkpoint_data),
                          !.last_checkpoint = Some(name),
                          !.labels = [i \in DOMAIN b.labels |-> [j \in DOMAIN b.labels[i] |-> {}]]],
                rep)

cmd_checkpoint(b, name, verify_connectivity, verify_entities, full_verification, stats) ==
    IF NoGrid(b) THEN Raise(b, "Cannot checkpoint without grid")
    ELSE LET checkpoint_data ==
                 [grid_state |-> b.grid,          \* [row[:] for row in self.grid]
                  entities_state |-> b.entities]  \* dict(self.entities): the lists are shared
             connected == check_map_connectivity(JoinRows(b.grid), b.target_width,
                                                 b.target_height)
             has_player == CountOf(b.entities, b.store, "player") = 1
             rep == [name |-> name,
                     map |-> JoinRows(b.grid),
                     stats |-> IF stats \/ full_verification
                               THEN [walls |-> GridCount(b.grid, WALL),
                                     floors |-> GridCount(b.grid, FLOOR),
                                     doors |-> GridCount(b.grid, DOOR),
                                     water |-> GridCount(b.grid, WATER)]
                               ELSE None,
                     connectivity |-> IF verify_connectivity \/ full_verification
                                      THEN Some(connected) ELSE None,
                     entities |-> IF verify_entities \/ full_verification
                                  THEN [total |-> TotalEntities(b.entities, b.store),
                                        has_player |-> has_player]
                                  ELSE None]
         IN  Ok([b EXCEPT !.checkpoints = DictSet(b.checkpoints, name, checkpoint_data),
                          !.last_checkpoint = Some(name)],
                rep)

\* Whether a checkpoint report carries the failure mark the driver looks for.
ReportHasIssue(rep) ==
    \/ rep.connectivity = Some(FALSE)
    \/ (rep.entities # None /\ ~rep.entities.has_player)

\* MapData(...): pydantic validates the entity keys against shared.models.EntityType.
to_map_data(b) ==
    IF NoGrid(b) THEN [ok |-> FALSE, exc |-> "ValueError"]
    ELSE LET tiles == JoinRows(b.grid)
         IN  IF \E k \in 1..Len(b.entities) : b.entities[k].key \notin SharedEntityType
             THEN [ok |-> FALSE, exc |-> "ValidationError"]
             ELSE [ok |-> TRUE,
                   map |-> [width |-> b.target_width,
                            height |-> b.target_height,
                            tiles |-> tiles,
                            entities |-> EntitiesValue(b.entities, b.store),
                            metadata |->
                              [wall_count |-> GridCount(b.grid, WALL),
                               floor_count |-> GridCount(b.grid, FLOOR),
                               door_count |-> GridCount(b.grid, DOOR),
                               water_count |-> GridCount(b.grid, WATER),
                               connectivity_verified |->
                                   check_map_connectivity(tiles, b.target_width,
                                                          b.target_height),
                               checkpoints_used |-> DictKeys(b.checkpoints)]]]


(***************************************************************************)
(* MapVerifier.  A prompt is its list of lower-case words                  *)
(* (prompt.lower().split()), a word its list of characters.  Scores are    *)
(* kept exact: a check's score is in units of 1, the quantitative score in *)
(* thousandths, weights in tenths.  A function that raises returns         *)
(* [raised |-> TRUE, exc |-> <the exception>].                             *)
(***************************************************************************)
\* "keyword in word" for strings.
Contains(word, keyword) ==
    \E k \in 0..(Len(word) - Len(keyword)) :
        SubSeq(word, k + 1, k + Len(keyword)) = keyword

\* "keyword in prompt_lower" for a keyword without blanks.
PromptHas(words, keyword) == \E i \in 1..Len(words) : Contains(words[i], keyword)

Digits == <<"0", "1", "2", "3", "4", "5", "6", "7", "8", "9">>
DigitValue(c) == (CHOOSE k \in 1..Len(Digits) : Digits[k] = c) - 1
IsDigitWord(word) ==
    /\ word # <<>>
    /\ \A k \in 1..Len(word) : \E d \in 1..Len(Digits) : Digits[d] = word[k]

RECURSIVE IntOf(_)
IntOf(word) ==
    IF word = <<>> THEN 0
    ELSE 10 * IntOf(SubSeq(word, 1, Len(word) - 1)) + DigitValue(word[Len(word)])

\* The count a word standing before a keyword states, 0 when it states none.
NumberWord(word) ==
    IF IsDigitWord(word) THEN IntOf(word)
    ELSE IF word \in {<<"o", "n", "e">>, <<"a">>, <<"a", "n">>} THEN 1
    ELSE IF word = <<"t", "w", "o">> THEN 2
    ELSE IF word = <<"t", "h", "r", "e", "e">> THEN 3
    ELSE 0

\* entity_keywords, in the order the dict literal lists them.
entity_keywords ==
    << [kind |-> "ogre", keywords |-> << <<"o","g","r","e">>, <<"o","g","r","e","s">> >>],
       [kind |-> "goblin", keywords |-> << <<"g","o","b","l","i","n">>,
                                           <<"g","o","b","l","i","n","s">> >>],
       [kind |-> "shop", keywords |-> << <<"s","h","o","p">>, <<"s","t","o","r","e">>,
                                         <<"m","e","r","c","h","a","n","t">> >>],
       [kind |-> "chest", keywords |-> << <<"c","h","e","s","t">>,
                                          <<"t","r","e","a","s","u","r","e">> >>],
       [kind |-> "tomb", keywords |-> << <<"t","o","m","b">>, <<"t","o","m","b","s">> >>],
       [kind |-> "spirit", keywords |-> << <<"s","p","i","r","i","t">>,
                                           <<"s","p","i","r","i","t","s">>,
                                           <<"g","h","o","s","t">>,
                                           <<"g","h","o","s","t","s">> >>],
       [kind |-> "human", keywords |-> << <<"c","u","s","t","o","m","e","r">>,
                                          <<"c","u","s","t","o","m","e","r","s">>,
                                          <<"s","h","o","p","p","e","r">>,
                                          <<"s","h","o","p","p","e","r","s">>,
                                          <<"p","a","t","r","o","n">>,
                                          <<"p","a","t","r","o","n","s">>,
                                          <<"v","i","l","l","a","g","e","r">>,
                                          <<"v","i","l","l","a","g","e","r","s">> >>] >>

\* The expected count one keyword yields: the number words among the three words
\* before the first word that contains it.
ExpectedFor(words, keyword) ==
    IF ~PromptHas(words, keyword) THEN 0
    ELSE LET i == SetMin({k \in 1..Len(words) : Contains(words[k], keyword)})
         IN  SetMax({0} \cup {NumberWord(words[j]) : j \in Max2(1, i - 3)..(i - 1)})

expected_count(words, keywords) ==
    SetMax({0} \cup {ExpectedFor(words, keywords[k]) : k \in 1..Len(keywords)})

\* _count_entities: len(entities.get(kind, []))
count_entities(map, kind) ==
    IF DictHas(map.entities, kind) THEN Len(DictGet(map.entities, kind)) ELSE 0

\* EntityType(entity_type) of shared.models raises ValueError for a kind it lacks.
check_entity_counts(words, map) ==
    IF \E k \in 1..Len(entity_keywords) : entity_keywords[k].kind \notin SharedEntityType
    THEN [raised |-> TRUE, exc |-> "ValueError"]
    ELSE [raised |-> FALSE,
          checks |->
            {[kind |-> entity_keywords[k].kind,
              expected |-> expected_count(words, entity_keywords[k].keywords),
              actual |-> count_entities(map, entity_keywords[k].kind),
              passed |-> count_entities(map, entity_keywords[k].kind)
                           = expected_count(words, entity_keywords[k].keywords),
              critical |-> FALSE]
               : k \in {j \in 1..Len(entity_keywords) :
                          expected_count(words, entity_keywords[j].keywords) > 0}}
            \cup {[kind |-> "player", expected |-> 1,
                   actual |-> count_entities(map, "player"),
                   passed |-> count_entities(map, "player") = 1,
                   critical |-> TRUE]}]

check_map_structure(words, map) ==
    LET counts == count_tiles(map.tiles)
        total == counts.wall + counts.floor + counts.door + counts.water
        \* wall_ratio < 0.4 and wall_ratio > 0.6, the ratio being 0 for no tiles
        sparse == IF total > 0 THEN 10 * counts.wall < 4 * total ELSE TRUE
        dense == IF total > 0 THEN 10 * counts.wall > 6 * total ELSE FALSE
        wantDense == PromptHas(words, <<"d","e","n","s","e">>)
                       \/ PromptHas(words, <<"m","a","z","e">>)
        wantOpen == PromptHas(words, <<"o","p","e","n">>)
                       \/ PromptHas(words, <<"f","i","e","l","d">>)
    IN  IF wantDense
        THEN [score |-> IF sparse THEN 8 ELSE 10, density_match |-> Some(~sparse)]
        ELSE IF wantOpen
        THEN [score |-> IF dense THEN 8 ELSE 10, density_match |-> Some(~dense)]
        ELSE [score |-> 10, density_match |-> None]

\* All (kind, entity) pairs in the order the two nested loops visit them.
RECURSIVE FlattenEntities(_, _)
FlattenEntities(ents, k) ==
    IF k > Len(ents) THEN <<>>
    ELSE [i \in 1..Len(ents[k].val) |-> [kind |-> ents[k].key, e |-> ents[k].val[i]]]
           \o FlattenEntities(ents, k + 1)

check_entity_placement(map) ==
    LET lines == Lines(map.tiles)
        all == FlattenEntities(map.entities, 1)
        OutRows(e) == e.y >= Len(lines) \/ e.y < 0
        OutCols(e) == e.x >= Len(lines[e.y + 1]) \/ e.x < 0
        bounds == {k \in 1..Len(all) : OutRows(all[k].e) \/ OutCols(all[k].e)}
        badTile == {k \in (1..Len(all)) \ bounds :
                      At(lines, all[k].e.x, all[k].e.y) \notin Accessible}
        \* an entity whose position an earlier entity holds
        overlaps == {k \in 1..Len(all) :
                       \E j \in 1..(k - 1) : all[j].e.x = all[k].e.x /\ all[j].e.y = all[k].e.y}
        score == 10 - Cardinality(bounds) - Cardinality(badTile) - Cardinality(overlaps)
    IN  [score |-> Max2(0, score),
         bounds_errors |-> {all[k].kind : k \in bounds},
         tile_errors |-> {all[k].kind : k \in badTile},
         \* details["entity_overlap"] is set, with passed False, only on an overlap
         entity_overlap |-> IF overlaps = {} THEN None ELSE [passed |-> FALSE]]

check_map_borders(map) ==
    LET lines == Lines(map.tiles)
        AllWall(line) == \A k \in 1..Len(line) : line[k] = WALL
        top == AllWall(lines[1])
        bottom == AllWall(lines[Len(lines)])
        left == \A k \in 1..Len(lines) : Len(lines[k]) > 0 /\ lines[k][1] = WALL
        right == \A k \in 1..Len(lines) : Len(lines[k]) > 0 /\ lines[k][Len(lines[k])] = WALL
        has_borders == top /\ bottom /\ left /\ right
    IN  [score |-> IF has_borders THEN 10 ELSE 9,
         top_border |-> top, bottom_border |-> bottom,
         left_border |-> left, right_border |-> right,
         border_summary |-> has_borders]


\* The entity map of a test case given as a dict, as lines 65-93 turn it into a
\* MapData: kinds that are no EntityType are dropped (and reported), as are kinds
\* left without entities.
CoerceEntities(ents) ==
    IF \A k \in 1..Len(ents) : ents[k].key \in SharedEntityType THEN ents
    ELSE SelectSeq(ents, LAMBDA kv : kv.key \in SharedEntityType /\ kv.val # <<>>)

UnknownEntities(ents) ==
    {ents[k].key : k \in {j \in 1..Len(ents) : ents[j].key \notin SharedEntityType}}

quantitative_verification(words, map) ==
    LET entity_checks == check_entity_counts(words, map)
    IN  IF entity_checks.raised THEN entity_checks
        ELSE
        LET checks == entity_checks.checks
            critical_failures == {c \in checks : c.critical /\ ~c.passed}
            failed == {c \in checks : ~c.critical /\ ~c.passed}
            s0 == 10000 - 2000 * Cardinality(failed)
                        - (IF critical_failures # {} THEN 5000 ELSE 0)
            structure == check_map_structure(words, map)
            s1 == Min2(s0, FloorDiv(s0 * structure.score, 10))
            connectivity_verified == validate_map_connectivity(map.tiles, map.width, map.height)
            s2 == IF connectivity_verified THEN s1 ELSE s1 - 3000
            placement == check_entity_placement(map)
            s3 == Min2(s2, FloorDiv(s2 * placement.score, 10))
            borders == check_map_borders(map)
            s4 == Min2(s3, FloorDiv(s3 * borders.score, 10))
        IN  [raised |-> FALSE,
             score |-> Max2(0, s4),
             details |-> [entity_counts |-> checks,
                          structure |-> structure,
                          connectivity |-> [passed |-> connectivity_verified],
                          entity_placement |-> placement,
                          map_borders |-> borders]]

\* What a call of _verify_single_map comes to: a result it returns, or an
\* exception that leaves it.
Returned(result) == [raised |-> FALSE, result |-> result]
Escaped(exc) == [raised |-> TRUE, exc |-> exc]

\* The "except Exception" result of _verify_single_map.
ErrorResult(exc) ==
    [overall_score |-> 0, passed |-> FALSE,
     quantitative_checks |-> [error |-> exc],
     qualitative_checks |-> [error |-> exc],
     llm_response |-> [error |-> exc],
     llm_called |-> FALSE]

\* Lines 99-171 of _verify_single_map: the result made of the quantitative
\* outcome, the dimension check and the unknown entity kinds.  q_weight and
\* ql_weight are the configured weights in tenths, confidence the score the
\* language model returns when it is asked.  The overall score is in units of
\* 1/10000 (0.7 * 6 + 0.3 * 6 is 5.999999999999999 in floating point and fails
\* the pass mark 6.0; the exact sum used here reaches it).
scored(quantitative, dimension, unknown, q_weight, ql_weight, confidence) ==
    LET details == [entity_counts |-> quantitative.details.entity_counts,
                    structure |-> quantitative.details.structure,
                    connectivity |-> quantitative.details.connectivity,
                    entity_placement |-> quantitative.details.entity_placement,
                    map_borders |-> quantitative.details.map_borders,
                    unknown_entities |-> unknown,
                    dimension_errors |-> [passed |-> dimension.errors = {},
                                          errors |-> dimension.errors]]
        qualitative_score == IF dimension.valid THEN confidence ELSE 0
        overall == quantitative.score * q_weight + qualitative_score * 1000 * ql_weight
        critical_entity_failures ==
            \E c \in quantitative.details.entity_counts : c.critical /\ ~c.passed
        overlap_failed == quantitative.details.entity_placement.entity_overlap # None
        zero == ~dimension.valid \/ critical_entity_failures \/ overlap_failed
    IN  [overall_score |-> IF zero THEN 0 ELSE overall,
         passed |-> IF zero THEN FALSE ELSE overall >= 60000,
         quantitative_checks |-> details,
         qualitative_checks |-> IF dimension.valid THEN [score |-> confidence]
                                ELSE [skipped |-> TRUE],
         llm_response |-> IF dimension.valid THEN [confidence |-> confidence]
                          ELSE [error |-> "skipped"],
         llm_called |-> dimension.valid]

\* A verifier that asks the language model before it runs any check.
verdict_llm_first(quantitative, dimension, unknown, q_weight, ql_weight, confidence) ==
    IF quantitative.raised
    THEN Returned([ErrorResult(quantitative.exc) EXCEPT !.llm_called = TRUE])
    ELSE Returned([scored(quantitative, dimension, unknown, q_weight, ql_weight,
                          confidence) EXCEPT !.llm_called = TRUE])

\* A verifier without the "except Exception" clause.
verdict_unhandled(quantitative, dimension, unknown, q_weight, ql_weight, confidence) ==
    IF quantitative.raised THEN Escaped(quantitative.exc)
    ELSE Returned(scored(quantitative, dimension, unknown, q_weight, ql_weight,
                         confidence))

\* The try block of _verify_single_map and its "except Exception" clause: an
\* exception of a check becomes the error result.
verdict(quantitative, dimension, unknown, q_weight, ql_weight, confidence) ==
    IF quantitative.raised THEN Returned(ErrorResult(quantitative.exc))
    ELSE Returned(scored(quantitative, dimension, unknown, q_weight, ql_weight,
                         confidence))

\* metadata.get(key, default)
MetaGet(meta, key, default) == IF key \in DOMAIN meta THEN meta[key] ELSE default

\* The MapData of a test case: lines 65-93 of _verify_single_map.  Unknown
\* entity kinds are dropped and recorded in the metadata.
coerce_map(raw_map) ==
    [raw_map EXCEPT
        !.entities = CoerceEntities(raw_map.entities),
        !.metadata = IF UnknownEntities(raw_map.entities) # {}
                     THEN [unknown_entities |-> UnknownEntities(raw_map.entities)] @@ @
                     ELSE @]

\* Lines 103-106 of _verify_single_map: the unknown kinds the report shows, read
\* from the metadata of the coerced map and joined with those of the coercion.
surfaced_unknown(raw_map) ==
    MetaGet(coerce_map(raw_map).metadata, "unknown_entities", {})
        \cup UnknownEntities(raw_map.entities)

check_dimensions(map) == validate_map_dimensions(map.tiles, map.width, map.height)

\* _verify_single_map(test_case) for the words of the prompt and the map.
\* A verifier that passes a map whose producer marked it connectivity_verified.
verify_trusting_metadata(words, raw_map, q_weight, ql_weight, confidence) ==
    IF MetaGet(raw_map.metadata, "connectivity_verified", FALSE)
    THEN Returned([ErrorResult("none") EXCEPT !.overall_score = 100000, !.passed = TRUE])
    ELSE verdict(quantitative_verification(words, coerce_map(raw_map)),
                 check_dimensions(coerce_map(raw_map)),
                 surfaced_unknown(raw_map),
                 q_weight, ql_weight, confidence)

verify_single_map(words, raw_map, q_weight, ql_weight, confidence) ==
    verdict(quantitative_verification(words, coerce_map(raw_map)),
            check_dimensions(coerce_map(raw_map)),
            surfaced_unknown(raw_map),
            q_weight, ql_weight, confidence)


(***************************************************************************)
(* The interpreter session as a state machine: one builder, one program.   *)
(* _execute_dsl_program runs the commands in order; each action below is   *)
(* one iteration of its loop for one kind of command, the command itself   *)
(* being the input.                                                        *)
(***************************************************************************)
self ==
    [target_width |-> target_width, target_height |-> target_height, grid |-> grid,
     labels |-> labels, entities |-> entities, store |-> store,
     checkpoints |-> checkpoints, last_checkpoint |-> last_checkpoint]

Commit(b) ==
    /\ target_width' = b.target_width
    /\ target_height' = b.target_height
    /\ grid' = b.grid
    /\ labels' = b.labels
    /\ entities' = b.entities
    /\ store' = b.store
    /\ checkpoints' = b.checkpoints
    /\ last_checkpoint' = b.last_checkpoint

BuilderUnchanged ==
    UNCHANGED <<target_width, target_height, grid, labels, entities, store,
                checkpoints, last_checkpoint>>

\* The state after DSLMapBuilder(w, h) and the parse of a program of n commands.
\* Nothing has been asked of the connectivity functions yet.
NoAnalysis ==
    [is_fully_connected |-> None, verifier_connectivity |-> None, reachable |-> None,
     regions |-> None, stats |-> None]

\* No draw_line call is under way.
NoStroke ==
    [x1 |-> 0, y1 |-> 0, dx |-> 0, dy |-> 0, sx |-> 1, sy |-> 1, err |-> 0, x |-> 0, y |-> 0,
     half_width |-> 0, x0 |-> 0, y0 |-> 0, passes |-> 0, returned |-> TRUE]

\* No second interpreter instance is at work.
NoTwin == [program |-> <<>>, now |-> 0, instances |-> <<>>]

\* generate_map is not under way.
NoDriver ==
    [iteration |-> 0, max_iterations |-> 0, last_successful_builder |-> None, queries |-> 0]

\* "a cave" and "two ogres in an open field", lower-cased and split.
CavePrompt == << <<"a">>, <<"c","a","v","e">> >>
OgrePrompt == << <<"t","w","o">>, <<"o","g","r","e","s">>, <<"i","n">>, <<"a","n">>,
                 <<"o","p","e","n">>, <<"f","i","e","l","d">> >>
Prompts == {CavePrompt, OgrePrompt}

InitBuilder(w, h) ==
    /\ target_width = w
    /\ target_height = h
    /\ grid = None
    /\ labels = None
    /\ entities = <<>>
    /\ store = <<>>
    /\ checkpoints = <<>>
    /\ last_checkpoint = None

InitSession(w, h, n) ==
    /\ InitBuilder(w, h)
    /\ n_commands = n
    /\ command_index = 0
    /\ checkpoint_outputs = <<>>
    /\ pc = "exec"
    /\ error = None
    /\ map_data = None
    /\ report = None
    /\ llm_queries = 0
    /\ analysis = NoAnalysis
    /\ driver = NoDriver
    /\ twin = NoTwin
    /\ stroke = NoStroke

\* "for i, command in enumerate(commands)": there is a next command to run.
Running == pc = "exec" /\ command_index < n_commands

\* A loop that notes the error and goes on with the next command.
IterateResume(command, r) ==
    /\ Commit(r.b)
    /\ command_index' = command_index + 1
    /\ checkpoint_outputs' = IF r.ok /\ command.type = "checkpoint"
                             THEN Append(checkpoint_outputs, r.out)
                             ELSE checkpoint_outputs
    /\ error' = IF r.ok THEN error
                ELSE [message |-> r.out, command_index |-> command_index,
                      command |-> command]
    /\ UNCHANGED <<pc, n_commands, prompt, map_data, report, llm_queries, analysis,
                   driver, twin, stroke>>

\* One iteration of the loop of _execute_dsl_program: command is executed with
\* result r; a DSLExecutionError is annotated with the index and the rendered
\* command and re-raised, which ends the loop.
Iterate(command, r) ==
    /\ Commit(r.b)
    /\ IF r.ok
       THEN /\ command_index' = command_index + 1
            /\ checkpoint_outputs' = IF command.type = "checkpoint"
                                     THEN Append(checkpoint_outputs, r.out)
                                     ELSE checkpoint_outputs
            /\ UNCHANGED <<pc, error>>
       ELSE /\ pc' = "failed"
            /\ error' = [message |-> r.out, command_index |-> command_index,
                         command |-> command]
            /\ UNCHANGED <<command_index, checkpoint_outputs>>
    /\ UNCHANGED <<n_commands, prompt, map_data, report, llm_queries, analysis,
                   driver, twin, stroke>>

GridCommand(width, height) == [type |-> "grid", width |-> width, height |-> height]
RoomCommand(name, x, y, width, height) ==
    [type |-> "room", name |-> name, x |-> x, y |-> y, width |-> width, height |-> height]
DoorOnCommand(room, wall, at, offset) ==
    [type |-> "door_on", room |-> room, wall |-> wall, at |-> at, offset |-> offset]
ConnectByWallsCommand(a, a_wall, b, b_wall, style) ==
    [type |-> "connect_by_walls", a |-> a, a_wall |-> a_wall, b |-> b, b_wall |-> b_wall,
     style |-> style]
SpawnInCommand(entity, in_room, at, dx, dy, properties) ==
    [type |-> "spawn", entity |-> entity, in_room |-> in_room, at |-> at, dx |-> dx,
     dy |-> dy, properties |-> properties]
WaterAreaCommand(x, y, shape, radius, width, height) ==
    [type |-> "water_area", x |-> x, y |-> y, shape |-> shape, radius |-> radius,
     width |-> width, height |-> height]
RiverCommand(points, width) == [type |-> "river", points |-> points, width |-> width]
CheckpointCommand(name, verify_connectivity, verify_entities, full_verification, stats) ==
    [type |-> "checkpoint", name |-> name, verify_connectivity |-> verify_connectivity,
     verify_entities |-> verify_entities, full_verification |-> full_verification,
     stats |-> stats]

\* execute_command: the dispatch on the command's type.
execute_command(b, c) ==
    IF c.type = "grid" THEN cmd_grid(b, c.width, c.height)
    ELSE IF c.type = "room" THEN cmd_room(b, c.name, c.x, c.y, c.width, c.height)
    ELSE IF c.type = "door_on" THEN cmd_door_on(b, c.room, c.wall, c.at, c.offset)
    ELSE IF c.type = "connect_by_walls"
         THEN cmd_connect_by_walls(b, c.a, c.a_wall, c.b, c.b_wall, c.style)
    ELSE IF c.type = "spawn"
         THEN cmd_spawn_in(b, c.entity, c.in_room, c.at, c.dx, c.dy, c.properties)
    ELSE IF c.type = "water_area"
         THEN cmd_water_area(b, c.x, c.y, c.shape, c.radius, c.width, c.height)
    ELSE IF c.type = "river" THEN cmd_river(b, c.points, c.width)
    ELSE IF c.type = "checkpoint"
         THEN cmd_checkpoint(b, c.name, c.verify_connectivity, c.verify_entities,
                             c.full_verification, c.stats)
    ELSE Raise(b, "Unknown command type")

Execute(command) == Iterate(command, execute_command(self, command))

(***************************************************************************)
(* The commands the small session draws from.                              *)
(***************************************************************************)
RoomNames == {"a", "b"}

SmallGridCommands ==
    {GridCommand(SmallWidth, SmallHeight), GridCommand(SmallWidth + 1, SmallHeight)}

\* Rooms with and without interior, side by side, nested, and out of bounds.
SmallRoomCommands ==
    {RoomCommand(n, r[1], r[2], r[3], r[4]) :
        n \in RoomNames,
        r \in {<<0, 0, 3, SmallHeight>>, <<3, 0, 3, SmallHeight>>, <<1, 1, 4, 3>>,
               <<2, 1, 2, 3>>, <<SmallWidth - 2, 2, 3, 3>>, <<-1, 1, 3, 3>>,
               <<1, SmallHeight - 2, 3, 3>>}}

SmallDoorOnCommands ==
    {DoorOnCommand(n, w, p[1], p[2]) :
        n \in RoomNames, w \in {"north", "east"},
        p \in {<<"center", None>>, <<"start", None>>, <<"end", None>>,
               <<"center", Some(0)>>, <<"center", Some(2)>>}}

SmallConnectCommands ==
    {ConnectByWallsCommand("a", "east", "b", "west", "L"),
     ConnectByWallsCommand("a", "east", "b", "west", "I"),
     ConnectByWallsCommand("a", "south", "b", "north", "L"),
     ConnectByWallsCommand("b", "north", "a", "east", "I")}

NoProperties == <<>>

SmallSpawnCommands ==
    {SpawnInCommand(e, r, "center", dx, 0, NoProperties) :
        e \in {"player", "ogre", "tomb"}, r \in {None, Some("a"), Some("b")}, dx \in {0, 2}}

SmallWaterCommands ==
    {WaterAreaCommand(2, 2, "circle", 1, 6, 4),
     WaterAreaCommand(0, 0, "circle", 2, 6, 4),
     WaterAreaCommand(3, 2, "rectangle", 3, SmallWidth + 2, SmallHeight + 2)}

SmallRiverCommands ==
    {RiverCommand(p, w) :
        p \in {<< <<1, 1>>, <<4, 3>> >>, << <<0, 0>>, <<SmallWidth, SmallHeight>> >>,
               << <<1, 3>> >>},
        w \in {1, 3}}

SmallCheckpointCommands ==
    {CheckpointCommand(n, f[1], f[2], f[3], f[4]) :
        n \in {"c1", "c2"},
        f \in {<<FALSE, FALSE, FALSE, FALSE>>, <<TRUE, FALSE, FALSE, FALSE>>,
               <<FALSE, FALSE, TRUE, FALSE>>}}

Init ==
    /\ \E n \in 0..MaxCmds : InitSession(SmallWidth, SmallHeight, n)
    /\ prompt = CavePrompt

Grid ==
    /\ Running
    /\ \E c \in SmallGridCommands : Execute(c)

Room ==
    /\ Running
    /\ \E c \in SmallRoomCommands : Execute(c)

DoorOn ==
    /\ Running
    /\ \E c \in SmallDoorOnCommands : Execute(c)

ConnectByWalls ==
    /\ Running
    /\ \E c \in SmallConnectCommands : Execute(c)

Spawn ==
    /\ Running
    /\ \E c \in SmallSpawnCommands : Execute(c)

WaterArea ==
    /\ Running
    /\ \E c \in SmallWaterCommands : Execute(c)

River ==
    /\ Running
    /\ \E c \in SmallRiverCommands : Execute(c)

Checkpoint ==
    /\ Running
    /\ \E c \in SmallCheckpointCommands : Execute(c)


\* The loop of _execute_dsl_program is over: the collected reports are returned.
Finish ==
    /\ pc = "exec"
    /\ command_index = n_commands
    /\ pc' = "done"
    /\ UNCHANGED <<n_commands, command_index, checkpoint_outputs, prompt, error,
                   map_data, report, llm_queries, analysis, driver, twin, stroke>>
    /\ BuilderUnchanged

\* builder.to_map_data(map_id, prompt)
ToMapData ==
    /\ pc = "done"
    /\ LET r == to_map_data(self)
       IN  IF r.ok THEN map_data' = r.map /\ pc' = "mapped" /\ error' = error
           ELSE map_data' = map_data /\ pc' = "map_failed" /\ error' = [exception |-> r.exc]
    /\ UNCHANGED <<n_commands, command_index, checkpoint_outputs, prompt, report,
                   llm_queries, analysis, driver, twin, stroke>>
    /\ BuilderUnchanged

Next ==
    \/ Grid
    \/ Room
    \/ DoorOn
    \/ ConnectByWalls
    \/ Spawn
    \/ WaterArea
    \/ River
    \/ Checkpoint
    \/ Finish
    \/ ToMapData

Spec == Init /\ [][Next]_vars


(***************************************************************************)
(* Properties of the interpreter session (Spec).                           *)
(***************************************************************************)
SmallCommands ==
    SmallGridCommands \cup SmallRoomCommands \cup SmallDoorOnCommands
        \cup SmallConnectCommands \cup SmallSpawnCommands \cup SmallWaterCommands
        \cup SmallRiverCommands \cup SmallCheckpointCommands

\* A tile buffer of exactly h rows of exactly w cells, each a tile character.
WellShaped(g, w, h) ==
    /\ DOMAIN g = 0..(h - 1)
    /\ \A i \in DOMAIN g :
          /\ DOMAIN g[i] = 0..(w - 1)
          /\ \A j \in DOMAIN g[i] : g[i][j] \in TileChars

\* The tile string of a MapData: exactly h lines of exactly w tile characters.
WellShapedTiles(tiles, w, h) ==
    LET rows == SplitLines(tiles)
    IN  /\ Len(rows) = h
        /\ \A i \in 1..Len(rows) :
              /\ Len(rows[i]) = w
              /\ \A j \in 1..w : rows[i][j] \in TileChars

\* C1: once a grid command has succeeded, whatever commands follow (a repeated
\* grid included), the tile buffer has exactly target_height rows of exactly
\* target_width cells, every cell is one of '#', '.', '+', '~', and the tile
\* string exported from it has the same shape.
TileBufferShape ==
    /\ grid # None => WellShaped(grid, target_width, target_height)
    /\ pc = "mapped" =>
          /\ map_data.width = target_width
          /\ map_data.height = target_height
          /\ WellShapedTiles(map_data.tiles, target_width, target_height)

\* Water and a door have been written into the buffer by three or more commands
\* after the grid was created.
TileBufferShapeWitness ==
    /\ grid # None
    /\ command_index >= 3
    /\ \E i \in DOMAIN grid : \E j \in DOMAIN grid[i] : grid[i][j] = WATER
    /\ \E i \in DOMAIN grid : \E j \in DOMAIN grid[i] : grid[i][j] = DOOR

\* C2: executing a command list stops at the first failing command.  No step is
\* taken from a state that holds an error; the step that fails records the
\* 0-based index of the command it ran and that command, has run no command
\* before it that failed (the index counts the commands that succeeded), and
\* keeps what the commands before it built.
StopsAtFirstFailure ==
    [][/\ error = None
       /\ pc # "failed"
       /\ pc' = "failed" =>
             /\ error'.command_index = command_index
             /\ command_index' = command_index
             /\ \E c \in SmallCommands :
                   /\ error'.command = c
                   /\ ~execute_command(self, c).ok
                   /\ error'.message = execute_command(self, c).out
             /\ BuilderUnchanged]_vars

\* A command failed after two others had built rooms on the grid, with commands
\* of the list still not run.
StopsAtFirstFailureWitness ==
    /\ pc = "failed"
    /\ error.command_index = 2
    /\ command_index = 2
    /\ n_commands = MaxCmds
    /\ grid # None
    /\ \E i \in DOMAIN labels : \E j \in DOMAIN labels[i] : labels[i][j] # {}


(***************************************************************************)
(* Two rooms on a fresh grid joined east to west: the program              *)
(*   grid; room a; room b; connect_by_walls(a, east, b, west, "L")         *)
(* for every pair of rooms that fit the canvas and do not overlap.         *)
(***************************************************************************)
ConnectWidth == 7
ConnectHeight == 5

\* Every rectangle <<x, y, width, height>> within the canvas.
ConnectRects ==
    {r \in (0..(ConnectWidth - 1)) \X (0..(ConnectHeight - 1))
            \X (1..ConnectWidth) \X (1..ConnectHeight) :
        r[1] + r[3] <= ConnectWidth /\ r[2] + r[4] <= ConnectHeight}

\* The cells a room occupies, read back from the labels.
RoomCells(name) ==
    {<<j, i>> \in (0..(target_width - 1)) \X (0..(target_height - 1)) :
        RoomLabel(name) \in labels[i][j]}

RectCells(r) ==
    {<<j, i>> \in (0..(ConnectWidth - 1)) \X (0..(ConnectHeight - 1)) :
        InRect(i, j, r[1], r[2], r[3], r[4])}

ConnectInit ==
    /\ InitSession(ConnectWidth, ConnectHeight, 4)
    /\ prompt = CavePrompt

FreshGrid ==
    /\ Running
    /\ command_index = 0
    /\ Execute(GridCommand(ConnectWidth, ConnectHeight))

PlaceRoomA ==
    /\ Running
    /\ command_index = 1
    /\ \E r \in ConnectRects : Execute(RoomCommand("a", r[1], r[2], r[3], r[4]))

PlaceRoomB ==
    /\ Running
    /\ command_index = 2
    /\ \E r \in ConnectRects :
          /\ RectCells(r) \cap RoomCells("a") = {}
          /\ Execute(RoomCommand("b", r[1], r[2], r[3], r[4]))

ConnectEastWest ==
    /\ Running
    /\ command_index = 3
    /\ Execute(ConnectByWallsCommand("a", "east", "b", "west", "L"))

\* The same with style "I".
ConnectEastWestStraight ==
    /\ Running
    /\ command_index = 3
    /\ Execute(ConnectByWallsCommand("a", "east", "b", "west", "I"))

ConnectNext ==
    \/ FreshGrid
    \/ PlaceRoomA
    \/ PlaceRoomB
    \/ ConnectEastWest
    \/ ConnectEastWestStraight
    \/ Finish

ConnectSpec == ConnectInit /\ [][ConnectNext]_vars

\* The accessible cells reachable from the cells of frontier by steps between
\* 4-adjacent accessible cells.
RECURSIVE ReachFrom(_, _, _)
ReachFrom(g, seen, frontier) ==
    IF frontier = {} THEN seen
    ELSE LET next == {q \in UNION {{<<p[1] + 1, p[2]>>, <<p[1] - 1, p[2]>>,
                                       <<p[1], p[2] + 1>>, <<p[1], p[2] - 1>>} :
                                          p \in frontier} :
                         /\ q[2] \in DOMAIN g
                         /\ q[1] \in DOMAIN g[q[2]]
                         /\ q \notin seen
                         /\ g[q[2]][q[1]] \in Accessible}
         IN  ReachFrom(g, seen \cup next, next)

Joined(g, p, q) ==
    /\ g[p[2]][p[1]] \in Accessible
    /\ g[q[2]][q[1]] \in Accessible
    /\ q \in ReachFrom(g, {p}, {p})

\* The cell of a wall where connect_by_walls puts the door.
DoorCell(room, wall) ==
    LET coords == get_room_wall_coords(self, room, wall)
    IN  coords[pick_idx(Len(coords)) + 1]

Connected == pc = "exec" /\ command_index = 4

HasWalls ==
    /\ get_room_wall_coords(self, "a", "east") # <<>>
    /\ get_room_wall_coords(self, "b", "west") # <<>>

\* Room a lies wholly to the left of room b.
LeftOf ==
    \A p \in RoomCells("a") : \A q \in RoomCells("b") : p[1] < q[1]

HasInteriors ==
    /\ get_room_interior_coords(self, "a") # <<>>
    /\ get_room_interior_coords(self, "b") # <<>>

\* C3 as stated, read in its narrowest sense (both rooms have an interior and a
\* lies wholly to the left of b): after connect_by_walls(a, east, b, west, "L")
\* on two non-overlapping rooms of a fresh grid the map is fully connected.
ConnectFullyConnected ==
    (Connected /\ LeftOf /\ HasInteriors)
        => check_map_connectivity(JoinRows(grid), target_width, target_height)

\* C3, amended: for two non-overlapping rooms of a fresh grid with a wholly to
\* the left of b, connect_by_walls(a, east, b, west, "L") fails only if one of
\* the two walls has no cell, and when it has run the two door cells are
\* accessible and joined by a path of accessible cells.
ConnectJoinsDoors ==
    /\ (pc = "failed" /\ command_index = 3) => ~HasWalls
    /\ (Connected /\ LeftOf) => Joined(grid, DoorCell("a", "east"), DoorCell("b", "west"))

\* The doors of two rooms with interiors, a left of b and on different rows,
\* have been joined by an L-shaped corridor.
ConnectJoinsDoorsWitness ==
    /\ Connected
    /\ LeftOf
    /\ HasInteriors
    /\ DoorCell("a", "east")[2] # DoorCell("b", "west")[2]
    /\ DoorCell("a", "east")[1] + 1 < DoorCell("b", "west")[1]


(***************************************************************************)
(* The verifier and the connectivity functions applied to a map.           *)
(***************************************************************************)
\* The configured weights (quantitative, qualitative) in tenths, and the
\* confidence the language model answers with.
Weights == {<<7, 3>>, <<5, 5>>}
Confidences == {5, 9}

\* The fields of a VerificationResult.
Report(r) ==
    [overall_score |-> r.overall_score, passed |-> r.passed,
     quantitative_checks |-> r.quantitative_checks,
     qualitative_checks |-> r.qualitative_checks,
     llm_response |-> r.llm_response]

\* MapVerifier._verify_single_map({"prompt": prompt, "map": map_data})
Verify ==
    /\ pc = "mapped"
    /\ \E w \in Weights, confidence \in Confidences :
          LET r == verify_single_map(prompt, map_data, w[1], w[2], confidence)
          IN  IF r.raised
              THEN /\ pc' = "crashed"
                   /\ error' = [exception |-> r.exc]
                   /\ UNCHANGED <<report, llm_queries>>
              ELSE /\ pc' = "verified"
                   /\ report' = Report(r.result)
                   /\ llm_queries' = llm_queries + (IF r.result.llm_called THEN 1 ELSE 0)
                   /\ error' = error
    /\ UNCHANGED <<n_commands, command_index, checkpoint_outputs, prompt, map_data,
                   analysis, driver, twin, stroke>>
    /\ BuilderUnchanged

AnalysisStep ==
    /\ pc \in {"mapped", "verified"}
    /\ UNCHANGED <<n_commands, command_index, checkpoint_outputs, pc, prompt, error,
                   map_data, report, llm_queries, driver, twin, stroke>>
    /\ BuilderUnchanged

\* connectivity.check_map_connectivity(tiles, width, height)
CheckMapConnectivity ==
    /\ AnalysisStep
    /\ analysis.is_fully_connected = None
    /\ analysis' = [analysis EXCEPT !.is_fully_connected =
                       Some(check_map_connectivity(map_data.tiles, map_data.width,
                                                   map_data.height))]

\* MapVerifier._check_map_connectivity(map_data)
verifier_check_map_connectivity(map) ==
    validate_map_connectivity(map.tiles, map.width, map.height)

VerifierCheckMapConnectivity ==
    /\ AnalysisStep
    /\ analysis.verifier_connectivity = None
    /\ analysis' = [analysis EXCEPT !.verifier_connectivity =
                       Some(verifier_check_map_connectivity(map_data))]

(***************************************************************************)
(* The example session on the default canvas: a grid, rooms a and b, a     *)
(* corridor between them, a player in room a; then the map is verified.    *)
(***************************************************************************)
ScenarioInit ==
    /\ InitSession(DefaultWidth, DefaultHeight, 5)
    /\ prompt \in Prompts

ScenarioGrid ==
    /\ Running
    /\ command_index = 0
    /\ Execute(GridCommand(20, 15))

ScenarioRoomA ==
    /\ Running
    /\ command_index = 1
    /\ \E x \in {2, 3}, y \in {2, 3} : Execute(RoomCommand("a", x, y, 6, 5))

ScenarioRoomB ==
    /\ Running
    /\ command_index = 2
    /\ \E y \in {2, 4, 8} : Execute(RoomCommand("b", 12, y, 6, 5))

ScenarioConnect ==
    /\ Running
    /\ command_index = 3
    /\ \E style \in {"L", "I"} :
          Execute(ConnectByWallsCommand("a", "east", "b", "west", style))

ScenarioSpawn ==
    /\ Running
    /\ command_index = 4
    /\ \E dx \in {-1, 0, 1}, dy \in {0, 1} :
          Execute(SpawnInCommand("player", Some("a"), "center", dx, dy, NoProperties))

ScenarioNext ==
    \/ ScenarioGrid
    \/ ScenarioRoomA
    \/ ScenarioRoomB
    \/ ScenarioConnect
    \/ ScenarioSpawn
    \/ Finish
    \/ ToMapData
    \/ Verify
    \/ CheckMapConnectivity
    \/ VerifierCheckMapConnectivity

ScenarioSpec == ScenarioInit /\ [][ScenarioNext]_vars


RECURSIVE Run(_, _, _)
Run(b, program, k) ==
    IF k > Len(program) THEN b ELSE Run(execute_command(b, program[k]).b, program, k + 1)

\* The map of the example session.
ScenarioProgram ==
    << GridCommand(20, 15), RoomCommand("a", 2, 2, 6, 5), RoomCommand("b", 12, 2, 6, 5),
       ConnectByWallsCommand("a", "east", "b", "west", "L"),
       SpawnInCommand("player", Some("a"), "center", 0, 0, NoProperties) >>

ScenarioMap ==
    to_map_data(Run(NewBuilder(DefaultWidth, DefaultHeight), ScenarioProgram, 1)).map

HasCheck(name) == name \in DOMAIN report.quantitative_checks

\* C4 as stated: for the example session the verifier reports connectivity
\* true, a player count of 1, no overlap, and passes the map.
ScenarioPasses ==
    (pc = "verified" /\ map_data = ScenarioMap) =>
        /\ report.passed
        /\ HasCheck("connectivity")
        /\ report.quantitative_checks.connectivity.passed
        /\ HasCheck("entity_counts")
        /\ \E c \in report.quantitative_checks.entity_counts :
              c.kind = "player" /\ c.actual = 1 /\ c.passed
        /\ HasCheck("entity_placement")
        /\ report.quantitative_checks.entity_placement.entity_overlap = None


(***************************************************************************)
(* The verifier and the connectivity functions on arbitrary small maps:    *)
(* every grid of three tile kinds, as it is or with one defect in its      *)
(* text, with entity maps that are complete or faulty.                     *)
(***************************************************************************)
MapWidth == 2
MapHeight == 2

TileGrids == [0..(MapHeight - 1) -> [0..(MapWidth - 1) -> {WALL, FLOOR, DOOR}]]

Defects ==
    {"none", "leading_newline", "trailing_newline", "leading_blank", "trailing_blank",
     "short_row", "long_row", "missing_row", "extra_row"}

\* The text of a grid with one defect.
Damage(t, d) ==
    IF d = "leading_newline" THEN <<NEWLINE>> \o t
    ELSE IF d = "trailing_newline" THEN t \o <<NEWLINE>>
    ELSE IF d = "leading_blank" THEN <<" ">> \o t
    ELSE IF d = "trailing_blank" THEN t \o <<" ">>
    ELSE IF d = "short_row" THEN SubSeq(t, 1, Len(t) - 1)
    ELSE IF d = "long_row" THEN t \o <<WALL>>
    ELSE IF d = "missing_row" THEN SubSeq(t, 1, MapWidth)
    ELSE IF d = "extra_row" THEN t \o <<NEWLINE>> \o SubSeq(t, 1, MapWidth)
    ELSE t

Entity(x, y) == EntityData(x, y, NoProperties)

\* Entity maps as a test case holds them: no player, one player, two players,
\* two kinds on one cell, one kind twice on one cell, an entity outside the map,
\* a kind the shared models do not know.
EntityMaps ==
    { <<>>,
      << [key |-> "player", val |-> <<Entity(0, 0)>>] >>,
      << [key |-> "player", val |-> <<Entity(0, 0), Entity(1, 1)>>] >>,
      << [key |-> "player", val |-> <<Entity(0, 0)>>],
         [key |-> "ogre", val |-> <<Entity(0, 0)>>] >>,
      << [key |-> "player", val |-> <<Entity(1, 0)>>],
         [key |-> "ogre", val |-> <<Entity(1, 1), Entity(1, 1)>>] >>,
      << [key |-> "player", val |-> <<Entity(0, 0)>>],
         [key |-> "ogre", val |-> <<Entity(MapWidth + 3, MapHeight + 3)>>] >>,
      << [key |-> "player", val |-> <<Entity(0, 0)>>],
         [key |-> "tomb", val |-> <<Entity(1, 0)>>] >> }

TestMaps ==
    {[width |-> MapWidth, height |-> MapHeight, tiles |-> Damage(JoinRows(g), d),
      entities |-> e, metadata |-> <<>>] :
        g \in TileGrids, d \in Defects, e \in EntityMaps}

\* A verifier with a test case to verify; no interpreter session is under way.
VerifierInit ==
    /\ InitBuilder(DefaultWidth, DefaultHeight)
    /\ n_commands = 0
    /\ command_index = 0
    /\ checkpoint_outputs = <<>>
    /\ pc = "mapped"
    /\ prompt \in Prompts
    /\ error = None
    /\ map_data \in TestMaps
    /\ report = None
    /\ llm_queries = 0
    /\ analysis = NoAnalysis
    /\ driver = NoDriver
    /\ twin = NoTwin
    /\ stroke = NoStroke

VerifierNext ==
    \/ Verify
    \/ CheckMapConnectivity
    \/ VerifierCheckMapConnectivity

VerifierSpec == VerifierInit /\ [][VerifierNext]_vars

\* The cells of rows that hold an accessible tile, as <<x, y>> from 0.
AccessibleCells(rows) ==
    {<<x - 1, y - 1>> : x \in 1..MapWidth + 2, y \in 1..Len(rows)}
        \cap {p \in (0..(MapWidth + 1)) \X (0..(Len(rows) - 1)) :
                /\ p[1] < Len(rows[p[2] + 1])
                /\ rows[p[2] + 1][p[1] + 1] \in Accessible}

\* The cells of acc joined to a cell of seen by a path of 4-adjacent cells of acc.
RECURSIVE Closure(_, _)
Closure(acc, seen) ==
    LET next == {q \in acc \ seen :
                    \E p \in seen : Abs(p[1] - q[1]) + Abs(p[2] - q[2]) = 1}
    IN  IF next = {} THEN seen ELSE Closure(acc, seen \cup next)

\* The first cell of acc in row-major order.
FirstCell(acc) ==
    CHOOSE p \in acc : \A q \in acc : p[2] < q[2] \/ (p[2] = q[2] /\ p[1] <= q[1])

\* What "fully connected" means for rows of declared width and height.
FullyConnected(rows, width, height) ==
    /\ Len(rows) = height
    /\ \A i \in 1..Len(rows) : Len(rows[i]) = width
    /\ AccessibleCells(rows) # {}
    /\ AccessibleCells(rows) \subseteq
          Closure(AccessibleCells(rows), {FirstCell(AccessibleCells(rows))})

DimensionValid == check_dimensions(coerce_map(map_data)).valid

\* C5 as stated: for a dimension-valid map the verifier's connectivity check
\* and check_map_connectivity give the same answer.
ConnectivityChecksAgree ==
    (/\ DimensionValid
     /\ analysis.is_fully_connected # None
     /\ analysis.verifier_connectivity # None)
        => analysis.is_fully_connected = analysis.verifier_connectivity

\* C6 as stated: check_map_connectivity is true iff the rows of the tile text
\* are height rows of width cells with an accessible cell, all accessible cells
\* joined to the first.
FullyConnectedOfText ==
    analysis.is_fully_connected # None =>
        Value(analysis.is_fully_connected)
            = FullyConnected(SplitLines(map_data.tiles), map_data.width, map_data.height)

\* C6, amended: check_map_connectivity is true iff the rows of the tile text
\* with the white space at its two ends stripped are height rows of width cells
\* that hold at least one Floor-or-Door cell, every Floor-or-Door cell joined to
\* the first in row-major order by 4-adjacent Floor-or-Door cells; it is false
\* when there is no such cell or a row of the stripped text has another length.
FullyConnectedOfStrippedText ==
    analysis.is_fully_connected # None =>
        Value(analysis.is_fully_connected)
            = FullyConnected(Lines(map_data.tiles), map_data.width, map_data.height)

\* A text that starts with a newline and holds a door was found fully connected.
FullyConnectedWitness ==
    /\ analysis.is_fully_connected = Some(TRUE)
    /\ map_data.tiles[1] = NEWLINE
    /\ \E k \in 1..Len(map_data.tiles) : map_data.tiles[k] = DOOR
    /\ Cardinality({k \in 1..Len(map_data.tiles) : map_data.tiles[k] = FLOOR}) >= 2

PlayerCount == count_entities(coerce_map(map_data), "player")

\* Two entities of the map the verifier checks are on one cell.
Overlap ==
    LET all == FlattenEntities(coerce_map(map_data).entities, 1)
    IN  \E j, k \in 1..Len(all) :
           j < k /\ all[j].e.x = all[k].e.x /\ all[j].e.y = all[k].e.y

\* C7 as stated: a map without exactly one player fails the critical player
\* check, and its report has score 0 and does not pass.
MissingPlayerFailsCheck ==
    (pc = "verified" /\ PlayerCount # 1) =>
        /\ report.overall_score = 0
        /\ ~report.passed
        /\ HasCheck("entity_counts")
        /\ \E c \in report.quantitative_checks.entity_counts :
              c.kind = "player" /\ c.critical /\ ~c.passed

\* C8 as stated: two entities on one cell put the critical overlap failure in
\* the report, which has score 0 and does not pass.
OverlapFailsCheck ==
    (pc = "verified" /\ Overlap) =>
        /\ report.overall_score = 0
        /\ ~report.passed
        /\ HasCheck("entity_placement")
        /\ report.quantitative_checks.entity_placement.entity_overlap # None

\* The rows of the text as it stands differ from the declared dimensions.
RawMismatch ==
    \/ Len(SplitLines(map_data.tiles)) # map_data.height
    \/ \E i \in 1..Len(SplitLines(map_data.tiles)) :
          Len(SplitLines(map_data.tiles)[i]) # map_data.width

\* C9: a map whose row count differs from the declared height or that has a row
\* whose length differs from the declared width, in the text as it stands or as
\* the verifier reads it, gets score 0 and a failed verdict, and the language
\* model is never queried for it.
DimensionMismatchFails ==
    (RawMismatch \/ ~DimensionValid) =>
        /\ llm_queries = 0
        /\ pc = "verified" => (report.overall_score = 0 /\ ~report.passed)

\* A map with a row too short, otherwise complete (one player, no overlap), has
\* been verified.
DimensionMismatchWitness ==
    /\ pc = "verified"
    /\ ~DimensionValid
    /\ RawMismatch
    /\ PlayerCount = 1
    /\ ~Overlap

\* C10: the verifier never raises: verifying a map, structurally invalid or not,
\* ends with a report that carries an overall score and a pass flag.
VerifierAlwaysReports ==
    /\ pc # "crashed"
    /\ pc = "verified" =>
          /\ report.overall_score \in 0..100000
          /\ report.passed \in BOOLEAN

\* A map with wrong dimensions, an entity outside the map and no single player
\* or an unknown kind has been verified.
VerifierAlwaysReportsWitness ==
    /\ pc = "verified"
    /\ ~DimensionValid
    /\ \/ UnknownEntities(map_data.entities) # {}
       \/ Overlap

(***************************************************************************)
(* The producer's metadata and the verifier.                               *)
(***************************************************************************)
\* Metadata bags a producer could have attached to the same map instead.
OtherMetadata(meta) ==
    { <<>>,
      [connectivity_verified |-> ~MetaGet(meta, "connectivity_verified", FALSE)] @@ meta,
      [wall_count |-> 0, floor_count |-> 0, door_count |-> 0, water_count |-> 0] @@ meta,
      [unknown_entities |-> {"dragon"}] @@ meta }

SpawnedKindsVerified ==
    (pc \in {"mapped", "map_failed"} /\ entities # <<>>) =>
        /\ pc = "mapped"
        /\ \A k \in 1..Len(entities) :
              \E j \in 1..Len(map_data.entities) :
                 map_data.entities[j].key = entities[k].key
        /\ ~check_entity_counts(prompt, coerce_map(map_data)).raised

(***************************************************************************)
(* DSLMapGenerator.generate_map: the retry loop around the language model. *)
(* One attempt is one pass of the loop body with the model's answer as the *)
(* input: the query fails, the answer does not parse, or it is a program.  *)
(***************************************************************************)
MaxRetries == 3

\* _execute_dsl_program(program_json, builder) for a parsed program, from its
\* k-th command on.
RECURSIVE ExecuteFrom(_, _, _, _)
ExecuteFrom(program, b, k, outputs) ==
    IF k > Len(program)
    THEN [ok |-> TRUE, b |-> b, outputs |-> outputs, command_index |-> k - 1,
          error |-> None]
    ELSE IF execute_command(b, program[k]).ok
    THEN ExecuteFrom(program, execute_command(b, program[k]).b, k + 1,
                     IF program[k].type = "checkpoint"
                     THEN Append(outputs, execute_command(b, program[k]).out)
                     ELSE outputs)
    ELSE [ok |-> FALSE, b |-> execute_command(b, program[k]).b, outputs |-> outputs,
          command_index |-> k - 1,
          error |-> [message |-> execute_command(b, program[k]).out,
                     command_index |-> k - 1, command |-> program[k]]]

execute_dsl_program(program, b) == ExecuteFrom(program, b, 1, <<>>)

\* The fallback program of generate_map.
FallbackProgram ==
    << GridCommand(20, 15), RoomCommand("main", 2, 2, 16, 11),
       DoorOnCommand("main", "north", "center", None),
       SpawnInCommand("player", Some("main"), "center", 0, 0, NoProperties),
       CheckpointCommand("fallback", FALSE, FALSE, TRUE, FALSE) >>

\* Programs a language model may answer with: no command at all, the example
\* session without and with a final checkpoint, a room without a player, a tomb
\* beside the player, a room that leaves the canvas.
DriverPrograms ==
    { <<>>,
      ScenarioProgram,
      ScenarioProgram \o <<CheckpointCommand("final", FALSE, FALSE, TRUE, FALSE)>>,
      << GridCommand(20, 15), RoomCommand("a", 2, 2, 6, 5),
         CheckpointCommand("final", FALSE, FALSE, TRUE, FALSE) >>,
      << GridCommand(20, 15), RoomCommand("a", 2, 2, 6, 5),
         SpawnInCommand("player", Some("a"), "center", 0, 0, NoProperties),
         SpawnInCommand("tomb", Some("a"), "center", 1, 0, NoProperties),
         DoorOnCommand("a", "east", "center", None),
         CheckpointCommand("final", TRUE, FALSE, FALSE, FALSE) >>,
      << GridCommand(20, 15), RoomCommand("a", 16, 2, 6, 5) >> }

Answers ==
    {[kind |-> "program", program |-> q] : q \in DriverPrograms}
        \cup {[kind |-> k, program |-> <<>>] : k \in {"query_error", "invalid"}}

DriverInit ==
    /\ InitBuilder(DefaultWidth, DefaultHeight)
    /\ n_commands = 0
    /\ command_index = 0
    /\ checkpoint_outputs = <<>>
    /\ pc = "driving"
    /\ prompt \in Prompts
    /\ error = None
    /\ map_data = None
    /\ report = None
    /\ llm_queries = 0
    /\ analysis = NoAnalysis
    /\ \E n \in 0..MaxRetries :
          driver = [iteration |-> 0, max_iterations |-> n,
                    last_successful_builder |-> None, queries |-> 0]
    /\ twin = NoTwin
    /\ stroke = NoStroke

\* A retry that leaves the iteration counter as it is.
RetryUncounted(last) ==
    /\ pc' = pc
    /\ map_data' = map_data
    /\ driver' = [driver EXCEPT !.last_successful_builder = last, !.queries = @ + 1]

\* "iteration += 1; continue", after the one self.client.query of the pass.
Retry(last) ==
    /\ pc' = pc
    /\ map_data' = map_data
    /\ driver' = [driver EXCEPT !.iteration = @ + 1, !.last_successful_builder = last,
                                !.queries = @ + 1]

\* The body of the while loop for a program that parsed, executed with result r.
AttemptProgram(r) ==
    /\ Commit(r.b)
    /\ n_commands' = r.command_index + (IF r.ok THEN 0 ELSE 1)
    /\ command_index' = r.command_index
    /\ checkpoint_outputs' = r.outputs
    /\ IF ~r.ok
       THEN error' = r.error /\ Retry(driver.last_successful_builder)
       ELSE IF \/ \E k \in 1..Len(r.outputs) : ReportHasIssue(r.outputs[k])
               \/ r.b.checkpoints = <<>>
       THEN error' = error /\ Retry(Some(r.b))
       ELSE IF to_map_data(r.b).ok
       THEN /\ pc' = "mapped"
            /\ map_data' = to_map_data(r.b).map
            /\ error' = error
            /\ driver' = [driver EXCEPT !.last_successful_builder = Some(r.b),
                                        !.queries = @ + 1]
       ELSE error' = [exception |-> to_map_data(r.b).exc] /\ Retry(Some(r.b))

\* One pass of "while iteration < max_iterations".
Attempt ==
    /\ pc = "driving"
    /\ driver.iteration < driver.max_iterations
    /\ \E answer \in Answers :
          IF answer.kind = "program"
          THEN AttemptProgram(execute_dsl_program(answer.program,
                                                  NewBuilder(DefaultWidth, DefaultHeight)))
          ELSE /\ error' = [exception |-> answer.kind]
               /\ Retry(driver.last_successful_builder)
               /\ UNCHANGED <<n_commands, command_index, checkpoint_outputs>>
               /\ BuilderUnchanged
    /\ UNCHANGED <<prompt, report, llm_queries, analysis, twin, stroke>>

\* builder.to_map_data(map_id, prompt) as the last statement of generate_map:
\* its result is returned, its exception leaves generate_map.
ReturnMap(b) ==
    /\ IF to_map_data(b).ok
       THEN pc' = "mapped" /\ map_data' = to_map_data(b).map /\ error' = error
       ELSE /\ pc' = "map_failed"
            /\ map_data' = map_data
            /\ error' = [exception |-> to_map_data(b).exc]
    /\ UNCHANGED <<n_commands, command_index, checkpoint_outputs, prompt, report,
                   llm_queries, analysis, driver, twin, stroke>>

\* The retry budget is used up and a program has executed: its map is returned.
ReturnLast ==
    /\ pc = "driving"
    /\ driver.iteration >= driver.max_iterations
    /\ driver.last_successful_builder # None
    /\ ReturnMap(Value(driver.last_successful_builder))
    /\ BuilderUnchanged

\* The retry budget is used up and no program has executed: the fallback
\* program is run on a new builder.
Fallback ==
    /\ pc = "driving"
    /\ driver.iteration >= driver.max_iterations
    /\ driver.last_successful_builder = None
    /\ Commit(execute_dsl_program(FallbackProgram,
                                  NewBuilder(DefaultWidth, DefaultHeight)).b)
    /\ ReturnMap(execute_dsl_program(FallbackProgram,
                                     NewBuilder(DefaultWidth, DefaultHeight)).b)

DriverNext ==
    \/ Attempt
    \/ ReturnLast
    \/ Fallback

DriverSpec == DriverInit /\ [][DriverNext]_vars

\* The map of the fallback program.
FallbackMap ==
    to_map_data(execute_dsl_program(FallbackProgram,
                                    NewBuilder(DefaultWidth, DefaultHeight)).b).map

Exhausted == driver.iteration >= driver.max_iterations

\* C13 as stated: generate_map never ends without a map; with the retry budget
\* used up the map is that of the most recent program that executed to
\* completion, and the fallback program's map only if there is none.
DriverAlwaysEmits ==
    /\ pc # "map_failed"
    /\ (pc = "mapped" /\ Exhausted) =>
          IF driver.last_successful_builder # None
          THEN map_data = to_map_data(Value(driver.last_successful_builder)).map
          ELSE map_data = FallbackMap

(***************************************************************************)
(* Checkpoint snapshots.                                                   *)
(***************************************************************************)
\* What inspecting the k-th snapshot shows: its grid copy and its entity copy,
\* the entity lists read through the store.
SnapshotValue(cps, st, k) ==
    [grid_state |-> cps[k].val.grid_state,
     entities_state |-> EntitiesValue(cps[k].val.entities_state, st)]

\* C14 as stated: a step that does not record a snapshot anew leaves the grid
\* copy and the entity copy the snapshot holds as they were.
SnapshotsNeverMutated ==
    [][\A k \in 1..Len(checkpoints) :
          (k <= Len(checkpoints') /\ checkpoints'[k] = checkpoints[k]) =>
              SnapshotValue(checkpoints', store', k) = SnapshotValue(checkpoints, store, k)]_vars

(***************************************************************************)
(* Where spawn records an entity.                                          *)
(***************************************************************************)
\* The entity a successful spawn command c appends in the current state.
Spawned(c) ==
    LET b == execute_command(self, c).b
        list == b.store[DictGet(b.entities, c.entity)]
    IN  list[Len(list)]

\* The step runs the spawn command c, with success.
SpawnStep(c) ==
    /\ Running
    /\ execute_command(self, c).ok
    /\ command_index' = command_index + 1
    /\ entities' = execute_command(self, c).b.entities
    /\ store' = execute_command(self, c).b.store
    /\ store' # store

\* The Floor/Door cells of the grid in row-major order.
WalkableCells ==
    SelectSeq(RowMajor(target_width, target_height),
              LAMBDA p : grid[p[2]][p[1]] \in Accessible)

\* C15 as stated: a successful spawn records the entity at a cell of the canvas
\* that is Floor or Door at that moment; without a room the cell is the canvas
\* centre when that is walkable and the first walkable cell in row-major order
\* when it is not.
SpawnOnWalkable ==
    [][\A c \in SmallSpawnCommands :
          SpawnStep(c) =>
              /\ in_bounds(self, Spawned(c).x, Spawned(c).y)
              /\ grid[Spawned(c).y][Spawned(c).x] \in Accessible
              /\ c.in_room = None =>
                    IF grid[target_height \div 2][target_width \div 2] \in Accessible
                    THEN /\ Spawned(c).x = target_width \div 2
                         /\ Spawned(c).y = target_height \div 2
                    ELSE /\ WalkableCells # <<>>
                         /\ <<Spawned(c).x, Spawned(c).y>> = WalkableCells[1]]_vars

(***************************************************************************)
(* door_on.                                                                *)
(***************************************************************************)
ZeroOffsetDoorOn == {c \in SmallDoorOnCommands : c.offset = Some(0)}

\* The step runs command c, which fails.
FailStep(c) == Running /\ pc' = "failed" /\ error'.command = c

\* The room has cells on the grid.
Placed(room) ==
    /\ ~NoGrid(self)
    /\ \E p \in (DOMAIN labels) \X (DOMAIN labels[0]) : RoomLabel(room) \in labels[p[1]][p[2]]

\* C16 as stated: door_on with offset 0 on a placed room never succeeds, places
\* no door, and its error is the invalid offset.
ZeroOffsetIsInvalidOffset ==
    [][\A c \in ZeroOffsetDoorOn :
          (Running /\ Placed(c.room)) =>
              /\ ~execute_command(self, c).ok
              /\ FailStep(c) => (grid' = grid /\ error'.message = "Invalid offset")]_vars

\* C16, amended: door_on with offset 0 never succeeds and places no door.  Its
\* error is the invalid offset when more than two cells are labelled for the
\* room and wall, wall-too-short when one or two are, not-found when none is,
\* and grid-not-initialized before any grid command.
ZeroOffsetFails ==
    [][\A c \in ZeroOffsetDoorOn :
          Running =>
              /\ ~execute_command(self, c).ok
              /\ FailStep(c) =>
                    /\ grid' = grid
                    /\ labels' = labels
                    /\ error'.message =
                          IF NoGrid(self) THEN "Must create grid first"
                          ELSE IF Len(get_room_wall_coords(self, c.room, c.wall)) = 0
                          THEN "not found"
                          ELSE IF Len(get_room_wall_coords(self, c.room, c.wall)) <= 2
                          THEN "Wall too short"
                          ELSE "Invalid offset"]_vars

\* door_on with offset 0 has failed with the invalid offset on a wall that has
\* a cell for a door.
ZeroOffsetFailsWitness ==
    /\ pc = "failed"
    /\ error.command \in ZeroOffsetDoorOn
    /\ error.message = "Invalid offset"
    /\ Len(get_room_wall_coords(self, error.command.room, error.command.wall)) > 2

\* The cells labelled for the room, as <<x, y>>.
CellsOf(room) ==
    {p \in (0..(target_width - 1)) \X (0..(target_height - 1)) :
        RoomLabel(room) \in labels[p[2]][p[1]]}

\* The rectangle of a placed room, from its cells.
Left(room) == SetMin({p[1] : p \in CellsOf(room)})
Right(room) == SetMax({p[1] : p \in CellsOf(room)})
Top(room) == SetMin({p[2] : p \in CellsOf(room)})
Bottom(room) == SetMax({p[2] : p \in CellsOf(room)})

\* The room is placed and no later room has taken a cell of its rectangle.
Intact(room) ==
    /\ Placed(room)
    /\ CellsOf(room) = (Left(room)..Right(room)) \X (Top(room)..Bottom(room))

SideLength(room, wall) ==
    IF wall \in {"north", "south"} THEN Right(room) - Left(room) + 1
    ELSE Bottom(room) - Top(room) + 1

\* p is a cell of that side of the room's rectangle other than its two ends.
NonCornerOfSide(p, room, wall) ==
    IF wall = "north" THEN p[2] = Top(room) /\ Left(room) < p[1] /\ p[1] < Right(room)
    ELSE IF wall = "south"
    THEN p[2] = Bottom(room) /\ Left(room) < p[1] /\ p[1] < Right(room)
    ELSE IF wall = "west"
    THEN p[1] = Left(room) /\ Top(room) < p[2] /\ p[2] < Bottom(room)
    ELSE p[1] = Right(room) /\ Top(room) < p[2] /\ p[2] < Bottom(room)

\* C17 as stated: on a placed room door_on (by anchor) succeeds when the side
\* has length 3 or more, fails with wall-too-short only when it is shorter, and
\* on success turns a non-corner cell of that side into the door.
DoorOnLongSides ==
    \A c \in {d \in SmallDoorOnCommands : d.offset = None} :
        (Running /\ Intact(c.room)) =>
            /\ SideLength(c.room, c.wall) >= 3 => execute_command(self, c).ok
            /\ ~execute_command(self, c).ok =>
                  /\ execute_command(self, c).out = "Wall too short"
                  /\ SideLength(c.room, c.wall) < 3
            /\ execute_command(self, c).ok =>
                  \A p \in (0..(target_width - 1)) \X (0..(target_height - 1)) :
                      execute_command(self, c).b.grid[p[2]][p[1]] # grid[p[2]][p[1]]
                          => NonCornerOfSide(p, c.room, c.wall)

(***************************************************************************)
(* Water.                                                                  *)
(***************************************************************************)
\* The cells of the border ring, as <<x, y>>.
BorderRing ==
    {p \in (0..(target_width - 1)) \X (0..(target_height - 1)) :
        \/ p[1] = 0 \/ p[1] = target_width - 1
        \/ p[2] = 0 \/ p[2] = target_height - 1}

\* C18: whatever water_area and river commands have run, no cell of row 0, of
\* the last row, of column 0 or of the last column is Water.
WaterInsideRing ==
    ~NoGrid(self) => \A p \in BorderRing : grid[p[2]][p[1]] # WATER

\* Water has been painted up to the ring: the cell next to the corner (0, 0)
\* and a cell next to the last column are Water.
WaterInsideRingWitness ==
    /\ ~NoGrid(self)
    /\ grid[1][1] = WATER
    /\ \E y \in 1..(target_height - 2) : grid[y][target_width - 2] = WATER

(***************************************************************************)
(* room.                                                                   *)
(***************************************************************************)
\* The rectangle of the room command lies on the canvas.
FitsCanvas(c) ==
    /\ c.x >= 0
    /\ c.y >= 0
    /\ c.x + c.width <= target_width
    /\ c.y + c.height <= target_height

\* C19: with a grid, a room command succeeds iff x >= 0, y >= 0, x + width <=
\* canvas width and y + height <= canvas height; when it fails, its error is the
\* out-of-bounds error and no tile and no label is written.
RoomIffFitsCanvas ==
    [][\A c \in SmallRoomCommands :
          (Running /\ ~NoGrid(self)) =>
              /\ execute_command(self, c).ok <=> FitsCanvas(c)
              /\ FailStep(c) =>
                    /\ error'.message = "exceeds bounds"
                    /\ grid' = grid
                    /\ labels' = labels]_vars

\* After a room was placed, a room command whose rectangle leaves the canvas at
\* the bottom only has failed.
RoomIffFitsCanvasWitness ==
    /\ pc = "failed"
    /\ error.command \in SmallRoomCommands
    /\ ~NoGrid(self)
    /\ \E n \in RoomNames : Placed(n)
    /\ error.command.x >= 0
    /\ error.command.x + error.command.width <= target_width
    /\ error.command.y + error.command.height > target_height

\* The texts of the error raised when a command finds no grid.
GridNotInitialized == {"Must create grid first", "Cannot checkpoint without grid"}

\* C20: a room, door_on, connect_by_walls, spawn, water_area, river or checkpoint
\* command executed while no grid exists fails with the grid-not-initialized
\* error and leaves grid, labels, entities and checkpoints as they were.
NoGridCommandFails ==
    [][\A c \in SmallCommands \ SmallGridCommands :
          (Running /\ NoGrid(self) /\ Execute(c)) =>
              /\ FailStep(c)
              /\ error'.message \in GridNotInitialized
              /\ grid' = None /\ labels' = None
              /\ entities' = entities /\ checkpoints' = checkpoints
              /\ last_checkpoint' = last_checkpoint]_vars

\* A river of a single point has failed for want of a grid, with nothing built.
NoGridCommandFailsWitness ==
    /\ pc = "failed"
    /\ NoGrid(self)
    /\ error.command \in SmallRiverCommands
    /\ Len(error.command.points) < 2
    /\ error.message \in GridNotInitialized
    /\ entities = <<>> /\ checkpoints = <<>>

(***************************************************************************)
(* grid.                                                                   *)
(***************************************************************************)
\* The cells of the canvas, as <<x, y>>.
Canvas == (0..(target_width - 1)) \X (0..(target_height - 1))

\* The step runs command c, with success.
OkStep(c) == Running /\ execute_command(self, c).ok /\ Execute(c)

\* The buffers hold what a grid command leaves: Wall on the ring, Floor inside,
\* no label anywhere.
FreshCanvas(g, labs) ==
    /\ DOMAIN g = 0..(target_height - 1)
    /\ DOMAIN labs = 0..(target_height - 1)
    /\ \A p \in Canvas :
          /\ g[p[2]][p[1]] = IF p \in BorderRing THEN WALL ELSE FLOOR
          /\ labs[p[2]][p[1]] = {}

\* C21: a successful grid command leaves every cell of the first and last row
\* and of the first and last column Wall, every other cell Floor and every
\* cell's label set empty, whatever the canvas held before.
GridFillsCanvas ==
    [][\A c \in SmallGridCommands : OkStep(c) => FreshCanvas(grid', labels')]_vars

\* A snapshot shows that the canvas held something else before, and the canvas
\* is as a grid command leaves it: a grid command ran over a used canvas.
GridFillsCanvasWitness ==
    /\ pc = "exec"
    /\ ~NoGrid(self)
    /\ FreshCanvas(grid, labels)
    /\ \E k \in 1..Len(checkpoints) : checkpoints[k].val.grid_state # grid

\* C22: a grid command whose size is not the target size fails with the
\* dimension mismatch and leaves grid and labels as they were, uninitialised
\* or not.
GridMismatchFails ==
    [][\A c \in SmallGridCommands :
          (Running /\ (c.width # target_width \/ c.height # target_height)
              /\ Execute(c)) =>
              /\ FailStep(c)
              /\ error'.message = "Grid must be"
              /\ grid' = grid
              /\ labels' = labels]_vars

\* A grid command of the wrong size has failed on a canvas that holds a room.
GridMismatchFailsWitness ==
    /\ pc = "failed"
    /\ error.command \in SmallGridCommands
    /\ error.command.width # target_width
    /\ \E n \in RoomNames : Placed(n)

(***************************************************************************)
(* DSLParser.parse_program and the command models.  A program document is  *)
(* the list under "commands" of the decoded JSON object; a record of it is *)
(* a function from field names to values and carries a type tag.  A field  *)
(* holds a value of its declared Python type: what the models reject is a  *)
(* wrong tag, a missing field, a number out of range and a word outside    *)
(* its Literal or Enum.  Fields no model declares are ignored.             *)
(***************************************************************************)
Missing(r, fields) == fields \ DOMAIN r
NotIn(r, f, allowed) == IF f \in DOMAIN r /\ r[f] \notin allowed THEN {f} ELSE {}
Below(r, f, ge) == IF f \in DOMAIN r /\ r[f] < ge THEN {f} ELSE {}
Above(r, f, le) == IF f \in DOMAIN r /\ r[f] > le THEN {f} ELSE {}
WrongTag(r, tag) == NotIn(r, "type", {tag})

\* The fields of record r each command model rejects.
GridCommandErrors(r) == WrongTag(r, "grid")

RoomCommandErrors(r) ==
    WrongTag(r, "room") \cup Missing(r, {"name", "x", "y", "width", "height"})
        \cup Below(r, "x", 0) \cup Above(r, "x", 19)
        \cup Below(r, "y", 0) \cup Above(r, "y", 14)
        \cup Below(r, "width", 1) \cup Below(r, "height", 1)

DoorOnCommandErrors(r) ==
    WrongTag(r, "door_on") \cup Missing(r, {"room", "wall"})
        \cup NotIn(r, "wall", WallSides)
        \cup NotIn(r, "at", {"center", "start", "end"})
        \cup Below(r, "offset", 0)

ConnectByWallsCommandErrors(r) ==
    WrongTag(r, "connect_by_walls") \cup Missing(r, {"a", "a_wall", "b", "b_wall"})
        \cup NotIn(r, "a_wall", WallSides) \cup NotIn(r, "b_wall", WallSides)
        \cup NotIn(r, "style", {"L", "I"})

SpawnInCommandErrors(r) ==
    WrongTag(r, "spawn") \cup Missing(r, {"entity"})
        \cup NotIn(r, "entity", EntityType)
        \cup NotIn(r, "at", {"center"})

WaterAreaCommandErrors(r) ==
    WrongTag(r, "water_area") \cup Missing(r, {"x", "y"})
        \cup Below(r, "x", 0) \cup Above(r, "x", 19)
        \cup Below(r, "y", 0) \cup Above(r, "y", 14)
        \cup NotIn(r, "shape", {"circle", "rectangle"})
        \cup Below(r, "radius", 1) \cup Below(r, "width", 1) \cup Below(r, "height", 1)

RiverCommandErrors(r) ==
    WrongTag(r, "river") \cup Missing(r, {"points"}) \cup Below(r, "width", 1)

CheckpointCommandErrors(r) == WrongTag(r, "checkpoint") \cup Missing(r, {"name"})

\* DSLCommand: the union of the eight command models, in its order.
DSLCommand ==
    <<"GridCommand", "RoomCommand", "DoorOnCommand", "ConnectByWallsCommand",
      "SpawnInCommand", "WaterAreaCommand", "RiverCommand", "CheckpointCommand">>

MemberErrors(member, r) ==
    CASE member = "GridCommand" -> GridCommandErrors(r)
      [] member = "RoomCommand" -> RoomCommandErrors(r)
      [] member = "DoorOnCommand" -> DoorOnCommandErrors(r)
      [] member = "ConnectByWallsCommand" -> ConnectByWallsCommandErrors(r)
      [] member = "SpawnInCommand" -> SpawnInCommandErrors(r)
      [] member = "WaterAreaCommand" -> WaterAreaCommandErrors(r)
      [] member = "RiverCommand" -> RiverCommandErrors(r)
      [] member = "CheckpointCommand" -> CheckpointCommandErrors(r)

\* A record is valid when one member of the union accepts it; when none does,
\* the ValidationError lists every member's errors, each located by the
\* member's name and the field.
RecordErrors(r) ==
    IF \E k \in 1..Len(DSLCommand) : MemberErrors(DSLCommand[k], r) = {}
    THEN {}
    ELSE UNION {{<<DSLCommand[k], f>> : f \in MemberErrors(DSLCommand[k], r)} :
                   k \in 1..Len(DSLCommand)}

\* r[f], or the field's default.
Field(r, f, default) == IF f \in DOMAIN r THEN r[f] ELSE default

\* The command object of a valid record.
CommandOf(r) ==
    CASE r.type = "grid" -> GridCommand(Field(r, "width", 20), Field(r, "height", 15))
      [] r.type = "room" -> RoomCommand(r.name, r.x, r.y, r.width, r.height)
      [] r.type = "door_on" ->
            DoorOnCommand(r.room, r.wall, Field(r, "at", "center"),
                          IF "offset" \in DOMAIN r THEN Some(r.offset) ELSE None)
      [] r.type = "connect_by_walls" ->
            ConnectByWallsCommand(r.a, r.a_wall, r.b, r.b_wall, Field(r, "style", "L"))
      [] r.type = "spawn" ->
            SpawnInCommand(r.entity,
                           IF "in" \in DOMAIN r THEN Some(r["in"])
                           ELSE IF "in_room" \in DOMAIN r THEN Some(r.in_room) ELSE None,
                           Field(r, "at", "center"), Field(r, "dx", 0), Field(r, "dy", 0),
                           Field(r, "properties", NoProperties))
      [] r.type = "water_area" ->
            WaterAreaCommand(r.x, r.y, Field(r, "shape", "circle"), Field(r, "radius", 3),
                             Field(r, "width", 6), Field(r, "height", 4))
      [] r.type = "river" -> RiverCommand(r.points, Field(r, "width", 2))
      [] r.type = "checkpoint" ->
            CheckpointCommand(r.name, Field(r, "verify_connectivity", FALSE),
                              Field(r, "verify_entities", FALSE),
                              Field(r, "full_verification", FALSE),
                              Field(r, "stats", FALSE))

\* The error locations "commands -> i -> member -> field" of a document.
Locations(records) ==
    UNION {{<<"commands", i - 1, e[1], e[2]>> : e \in RecordErrors(records[i])} :
              i \in 1..Len(records)}

\* A parser that hands on the commands before the first bad record.
parse_valid_prefix(records) ==
    LET bad == {i \in 1..Len(records) : RecordErrors(records[i]) # {}}
        n == IF bad = {} THEN Len(records) ELSE SetMin(bad) - 1
    IN  [ok |-> TRUE, commands |-> [i \in 1..n |-> CommandOf(records[i])]]

\* parse_program: the whole list is validated, then the command objects are
\* returned; a ValidationError becomes a DSLExecutionError listing the locations.
parse_program(records) ==
    IF Locations(records) = {}
    THEN [ok |-> TRUE, commands |-> [i \in 1..Len(records) |-> CommandOf(records[i])]]
    ELSE [ok |-> FALSE, message |-> "Validation errors", details |-> Locations(records)]

\* Records a language model may write: one of each command, with a room that
\* parses but leaves the canvas; and records with an x out of range, a wall, an
\* entity and a style outside their vocabulary, a radius and a width of 0, and
\* a tag no model has.
ValidRecords ==
    {[type |-> "grid", width |-> 20, height |-> 15],
     [type |-> "room", name |-> "a", x |-> 2, y |-> 2, width |-> 6, height |-> 5],
     [type |-> "room", name |-> "b", x |-> 16, y |-> 2, width |-> 6, height |-> 5],
     [type |-> "door_on", room |-> "a", wall |-> "north"],
     [type |-> "spawn", entity |-> "player", in_room |-> "a"],
     [type |-> "connect_by_walls", a |-> "a", a_wall |-> "east", b |-> "b",
      b_wall |-> "west"],
     [type |-> "water_area", x |-> 5, y |-> 5, shape |-> "rectangle"],
     [type |-> "river", points |-> << <<1, 1>>, <<8, 4>> >>, width |-> 1],
     [type |-> "checkpoint", name |-> "c1", full_verification |-> TRUE]}

InvalidRecords ==
    {[type |-> "room", name |-> "a", x |-> 25, y |-> 2, width |-> 6, height |-> 5],
     [type |-> "door_on", room |-> "a", wall |-> "up"],
     [type |-> "spawn", entity |-> "dragon"],
     [type |-> "room", name |-> "a", x |-> 2, y |-> 2, width |-> 0, height |-> 5],
     [type |-> "door_on", room |-> "a", wall |-> "north", offset |-> -1],
     [type |-> "spawn", entity |-> "player", at |-> "corner"],
     [type |-> "water_area", x |-> 5, y |-> 5, radius |-> 0],
     [type |-> "water_area", x |-> 5, y |-> 15, shape |-> "square"],
     [type |-> "connect_by_walls", a |-> "a", a_wall |-> "east", b |-> "b",
      b_wall |-> "west", style |-> "Z"],
     [type |-> "river", points |-> << <<1, 1>>, <<8, 4>> >>, width |-> 0],
     [type |-> "corridor", x1 |-> 1, y1 |-> 1, x2 |-> 5, y2 |-> 5]}

MaxRecords == 2

RECURSIVE Lists(_, _)
Lists(S, n) ==
    IF n = 0 THEN {<<>>}
    ELSE Lists(S, n - 1) \cup {Append(q, r) : q \in Lists(S, n - 1), r \in S}

Documents == Lists(ValidRecords \cup InvalidRecords, MaxRecords)

\* _execute_dsl_program is about to be called with a new builder.
ParseInit ==
    /\ InitBuilder(DefaultWidth, DefaultHeight)
    /\ n_commands = 0
    /\ command_index = 0
    /\ checkpoint_outputs = <<>>
    /\ pc = "parse"
    /\ prompt = CavePrompt
    /\ error = None
    /\ map_data = None
    /\ report = None
    /\ llm_queries = 0
    /\ analysis = NoAnalysis
    /\ driver = NoDriver
    /\ twin = NoTwin
    /\ stroke = NoStroke

\* _execute_dsl_program(program_json, builder): the parse, then the loop over
\* the parsed commands.
ExecuteDslProgram(records) ==
    /\ pc = "parse"
    /\ LET parsed == parse_program(records)
       IN  IF ~parsed.ok
           THEN /\ pc' = "failed"
                /\ error' = [message |-> parsed.message, command_index |-> None,
                             command |-> None, details |-> parsed.details]
                /\ UNCHANGED <<n_commands, command_index, checkpoint_outputs>>
                /\ BuilderUnchanged
           ELSE LET r == execute_dsl_program(parsed.commands, self)
                IN  /\ Commit(r.b)
                    /\ n_commands' = Len(parsed.commands)
                    /\ command_index' = r.command_index
                    /\ checkpoint_outputs' = r.outputs
                    /\ pc' = IF r.ok THEN "done" ELSE "failed"
                    /\ error' = r.error
    /\ UNCHANGED <<prompt, map_data, report, llm_queries, analysis, driver, twin, stroke>>

ParseNext == \E records \in Documents : ExecuteDslProgram(records)

ParseSpec == ParseInit /\ [][ParseNext]_vars

\* The step runs _execute_dsl_program on the document.
ProgramStep(records) == pc = "parse" /\ ExecuteDslProgram(records)

\* The command model a type tag selects.
ModelOfTag ==
    [grid |-> "GridCommand", room |-> "RoomCommand", door_on |-> "DoorOnCommand",
     connect_by_walls |-> "ConnectByWallsCommand", spawn |-> "SpawnInCommand",
     water_area |-> "WaterAreaCommand", river |-> "RiverCommand",
     checkpoint |-> "CheckpointCommand"]

\* The field paths that name what is wrong with record i (from 0) of the list:
\* the fields the model of its tag rejects, or its tag when no model has it.
Offending(records, i) ==
    LET r == records[i + 1]
    IN  IF r.type \in DOMAIN ModelOfTag
        THEN {<<"commands", i, ModelOfTag[r.type], f>> :
                 f \in MemberErrors(ModelOfTag[r.type], r)}
        ELSE {<<"commands", i, DSLCommand[k], "type">> : k \in 1..Len(DSLCommand)}

\* C23: when a record of the list has an unknown tag or a field out of its
\* range or enumeration, _execute_dsl_program fails with a validation error
\* that names the field path of every such record, and no command of the list
\* is executed: the builder and the collected outputs are as before the call.
ValidationBeforeDispatch ==
    [][\A records \in Documents :
          ((\E i \in 1..Len(records) : records[i] \in InvalidRecords)
              /\ ProgramStep(records)) =>
              /\ pc' = "failed"
              /\ error'.message = "Validation errors"
              /\ \A i \in 1..Len(records) :
                    records[i] \in InvalidRecords =>
                        /\ Offending(records, i - 1) # {}
                        /\ Offending(records, i - 1) \subseteq error'.details
              /\ BuilderUnchanged
              /\ grid' = None /\ entities' = <<>> /\ checkpoints' = <<>>
              /\ checkpoint_outputs' = <<>>]_vars

\* A program whose grid is valid and whose second record is a room with an x
\* out of range has failed in validation, and there is no grid.
ValidationBeforeDispatchWitness ==
    /\ pc = "failed"
    /\ error.message = "Validation errors"
    /\ <<"commands", 1, "RoomCommand", "x">> \in error.details
    /\ \A loc \in error.details : loc[2] = 1
    /\ grid = None

(***************************************************************************)
(* Two DSLMapBuilder instances that are given the same command list, each  *)
(* executing it command by command until the first failure and then        *)
(* exporting its map.  The exports read the clock                          *)
(* (generated_at = datetime.now()), which moves between them.              *)
(***************************************************************************)
MaxClock == 2

\* MapData(...) of to_map_data, with the time it is stamped with.
map_document_stamped(b, now) ==
    LET m == to_map_data(b).map
    IN  [width |-> m.width, height |-> m.height,
         tiles |-> IF now % 2 = 1 THEN m.tiles \o <<NEWLINE>> ELSE m.tiles,
         entities |-> m.entities, metadata |-> m.metadata, generated_at |-> now]

map_document(b, now) ==
    LET m == to_map_data(b).map
    IN  [width |-> m.width, height |-> m.height, tiles |-> m.tiles,
         entities |-> m.entities, metadata |-> m.metadata, generated_at |-> now]

\* The commands the two instances are given after grid: up to two of these.
TwinCommands ==
    {RoomCommand("a", 1, 1, 4, 3), RoomCommand("b", 3, 0, 3, SmallHeight),
     DoorOnCommand("a", "north", "center", None),
     ConnectByWallsCommand("a", "east", "b", "west", "L"),
     SpawnInCommand("player", Some("a"), "center", 0, 0, NoProperties),
     SpawnInCommand("ogre", None, "center", 0, 0, NoProperties),
     WaterAreaCommand(2, 2, "circle", 1, 6, 4),
     RiverCommand(<< <<1, 1>>, <<4, 3>> >>, 1),
     CheckpointCommand("c1", FALSE, FALSE, TRUE, FALSE)}

TwinPrograms ==
    {<<GridCommand(SmallWidth, SmallHeight)>> \o q : q \in Lists(TwinCommands, 2)}

NewInstance ==
    [b |-> NewBuilder(SmallWidth, SmallHeight), k |-> 1, failed |-> FALSE, out |-> None]

TwinInit ==
    /\ InitBuilder(SmallWidth, SmallHeight)
    /\ n_commands = 0
    /\ command_index = 0
    /\ checkpoint_outputs = <<>>
    /\ pc = "twin"
    /\ prompt = CavePrompt
    /\ error = None
    /\ map_data = None
    /\ report = None
    /\ llm_queries = 0
    /\ analysis = NoAnalysis
    /\ driver = NoDriver
    /\ \E q \in TwinPrograms :
          twin = [program |-> q, now |-> 0, instances |-> <<NewInstance, NewInstance>>]
    /\ stroke = NoStroke

TwinUnchanged ==
    /\ UNCHANGED <<n_commands, command_index, checkpoint_outputs, pc, prompt, error,
                   map_data, report, llm_queries, analysis, driver, stroke>>
    /\ BuilderUnchanged

\* Instance i executes its next command.
TwinExecute(i) ==
    LET me == twin.instances[i]
        r == execute_command(me.b, twin.program[me.k])
    IN  /\ pc = "twin"
        /\ ~me.failed
        /\ me.k <= Len(twin.program)
        /\ twin' = [twin EXCEPT !.instances[i] =
                        [me EXCEPT !.b = r.b,
                                   !.k = IF r.ok THEN me.k + 1 ELSE me.k,
                                   !.failed = ~r.ok]]
        /\ TwinUnchanged

\* Instance i has executed the list and exports its map.
TwinExport(i) ==
    LET me == twin.instances[i]
    IN  /\ pc = "twin"
        /\ ~me.failed
        /\ me.k > Len(twin.program)
        /\ me.out = None
        /\ to_map_data(me.b).ok
        /\ twin' = [twin EXCEPT !.instances[i].out = Some(map_document(me.b, twin.now))]
        /\ TwinUnchanged

\* Time passes.
TwinTick ==
    /\ pc = "twin"
    /\ twin.now < MaxClock
    /\ twin' = [twin EXCEPT !.now = @ + 1]
    /\ TwinUnchanged

TwinExecuteAny == \E i \in 1..2 : TwinExecute(i)
TwinExportAny == \E i \in 1..2 : TwinExport(i)

TwinNext ==
    \/ TwinExecuteAny
    \/ TwinExportAny
    \/ TwinTick

TwinSpec == TwinInit /\ [][TwinNext]_vars

SideCells(room, wall) ==
    IF wall \in {"north", "south"}
    THEN <<>> \o [k \in 1..(Right(room) - Left(room) + 1) |->
                    <<Left(room) + k - 1, IF wall = "north" THEN Top(room) ELSE Bottom(room)>>]
    ELSE <<>> \o [k \in 1..(Bottom(room) - Top(room) + 1) |->
                    <<IF wall = "west" THEN Left(room) ELSE Right(room), Top(room) + k - 1>>]

\* C25 as stated: for a placed room whose rectangle no later room has touched,
\* the wall coordinate list of each of the four sides is that side's cells from
\* corner to corner in order, as many as the side is long.
WallCoordsSpanSide ==
    \A room \in RoomNames : \A wall \in WallSides :
        Intact(room) =>
            /\ get_room_wall_coords(self, room, wall) = SideCells(room, wall)
            /\ Len(get_room_wall_coords(self, room, wall)) = SideLength(room, wall)

(***************************************************************************)
(* connect_by_walls.                                                       *)
(***************************************************************************)
\* The two walls a connect command names, as <<room, side>>.
WallsOf(c) == {<<c.a, c.a_wall>>, <<c.b, c.b_wall>>}

\* The midpoint of a list of n cells, clamped into [1, n - 2].
ClampedMidpoint(n) == Max2(1, Min2((n - 1) \div 2, n - 2))

\* C26 as stated: when connect_by_walls succeeds, the index picked on each wall
\* of n cells is the midpoint (n - 1) \div 2 clamped into [1, n - 2], so it is
\* neither the first nor the last index of the wall's coordinate list.
ConnectPicksInnerIndex ==
    [][\A c \in SmallConnectCommands :
          OkStep(c) =>
              \A w \in WallsOf(c) :
                  LET n == Len(get_room_wall_coords(self, w[1], w[2]))
                  IN  /\ pick_idx(n) = ClampedMidpoint(n)
                      /\ 0 < pick_idx(n)
                      /\ pick_idx(n) < n - 1]_vars

\* The cell outside the wall next to the door of that wall.
ExteriorCell(room, wall) ==
    outside(DoorCell(room, wall)[1], DoorCell(room, wall)[2], wall)

\* The corridor from s to t: along the row of s to the column of t, then
\* along that column to t.
CorridorCells(s, t) ==
    {<<x, s[2]>> : x \in Min2(s[1], t[1])..Max2(s[1], t[1])}
        \cup {<<t[1], y>> : y \in Min2(s[2], t[2])..Max2(s[2], t[2])}

\* C27 as stated: after a successful connect_by_walls both chosen wall cells
\* are Door and every cell of the corridor that lies on the canvas is Floor, so
\* that exterior cells on the canvas are joined by a run of Floor.
ConnectLeavesDoorsAndFloor ==
    [][\A c \in SmallConnectCommands :
          OkStep(c) =>
              LET pa == DoorCell(c.a, c.a_wall)
                  pb == DoorCell(c.b, c.b_wall)
                  s == ExteriorCell(c.a, c.a_wall)
                  t == ExteriorCell(c.b, c.b_wall)
              IN  /\ grid'[pa[2]][pa[1]] = DOOR
                  /\ grid'[pb[2]][pb[1]] = DOOR
                  /\ \A p \in CorridorCells(s, t) :
                        in_bounds(self, p[1], p[2]) => grid'[p[2]][p[1]] = FLOOR
                  /\ (in_bounds(self, s[1], s[2]) /\ in_bounds(self, t[1], t[2])) =>
                        \A p \in CorridorCells(s, t) : in_bounds(self, p[1], p[2])]_vars

\* The cells of the canvas the step turns into Floor.
Carved ==
    {p \in Canvas : grid[p[2]][p[1]] # FLOOR /\ grid'[p[2]][p[1]] = FLOOR}

\* The cells lie on one row or on one column.
Straight(cells) ==
    \/ \A p \in cells : \A q \in cells : p[1] = q[1]
    \/ \A p \in cells : \A q \in cells : p[2] = q[2]

\* C28 as stated: connect_by_walls with style "I" carves one straight segment;
\* when the two exterior cells share neither row nor column it does not carve
\* a corridor of two segments.
StraightCorridor ==
    [][OkStep(ConnectByWallsCommand("a", "east", "b", "west", "I")) =>
          Straight(Carved)]_vars

(***************************************************************************)
(* door_on: where the door goes.                                           *)
(***************************************************************************)
\* The list index a door_on command stands for on a wall of n cells.
DoorIndex(c, n) ==
    IF c.offset # None THEN Value(c.offset)
    ELSE IF c.at = "start" THEN 1
    ELSE IF c.at = "end" THEN n - 2
    ELSE ClampedMidpoint(n)

\* The example of the specification: room("a", 0, 0, 4, 4) and
\* door_on("a", "north", "start") on the default canvas.
ExampleDoorProgram ==
    << GridCommand(DefaultWidth, DefaultHeight), RoomCommand("a", 0, 0, 4, 4),
       DoorOnCommand("a", "north", "start", None) >>

ExampleDoorGrid == Run(NewBuilder(DefaultWidth, DefaultHeight), ExampleDoorProgram, 1).grid

\* C29: on a wall whose coordinate list has n >= 3 cells door_on takes list
\* index 1 for start, n - 2 for end, the clamped midpoint for center and k for
\* an offset k with 1 <= k <= n - 2; any other offset fails with the invalid
\* offset error; the cell at the index becomes Door and no other tile, label or
\* entity changes.  In the example cell (1, 0) becomes the only Door.
DoorOnResolvesIndex ==
    /\ \A y \in 0..(DefaultHeight - 1) : \A x \in 0..(DefaultWidth - 1) :
          (ExampleDoorGrid[y][x] = DOOR) <=> (x = 1 /\ y = 0)
    /\ [][\A c \in SmallDoorOnCommands :
             LET coords == get_room_wall_coords(self, c.room, c.wall)
                 n == Len(coords)
                 idx == DoorIndex(c, n)
             IN  (Running /\ ~NoGrid(self) /\ n >= 3 /\ Execute(c)) =>
                    IF 1 <= idx /\ idx <= n - 2
                    THEN /\ OkStep(c)
                         /\ grid' = SetTile(grid, coords[idx + 1][1], coords[idx + 1][2], DOOR)
                         /\ labels' = labels
                         /\ entities' = entities /\ store' = store
                    ELSE /\ FailStep(c)
                         /\ c.offset # None
                         /\ error'.message = "Invalid offset"
                         /\ grid' = grid]_vars

\* A room whose north side has four cells stands untouched and the third cell
\* of that side is a Door: door_on took index n - 2.
DoorOnResolvesIndexWitness ==
    /\ pc = "exec"
    /\ \E room \in RoomNames :
          /\ Intact(room)
          /\ SideLength(room, "north") = 4
          /\ grid[Top(room)][Right(room) - 1] = DOOR
          /\ grid[Top(room)][Left(room) + 1] = WALL

(***************************************************************************)
(* Cell labels.                                                            *)
(***************************************************************************)
\* The tags of one kind among the tags of a cell.
TagsOfKind(labs, kind) == {lab \in labs : lab[1] = kind}

\* C30: in every reachable state a cell carries at most one room tag, at most
\* one wall tag and at most one wall_index tag, and never a wall tag together
\* with the interior tag: a room placed over labelled cells replaces their tags.
OneClassificationPerCell ==
    ~NoGrid(self) =>
        \A p \in Canvas :
            LET labs == labels[p[2]][p[1]]
            IN  /\ Cardinality(TagsOfKind(labs, "room")) <= 1
                /\ Cardinality(TagsOfKind(labs, "wall")) <= 1
                /\ Cardinality(TagsOfKind(labs, "wall_index")) <= 1
                /\ ~(TagsOfKind(labs, "wall") # {} /\ InteriorLabel \in labs)

\* Room b has been placed over cells of room a: cells of b lie between cells of
\* a, on a's rows and columns.
OneClassificationPerCellWitness ==
    /\ Placed("a")
    /\ Placed("b")
    /\ \E p \in CellsOf("b") :
          /\ Left("a") < p[1] /\ p[1] < Right("a")
          /\ Top("a") <= p[2] /\ p[2] <= Bottom("a")
          /\ WallLabel("east") \in labels[p[2]][p[1]]

(***************************************************************************)
(* spawn with a target room.                                               *)
(***************************************************************************)
RoomSpawnCommands == {c \in SmallSpawnCommands : c.in_room # None}

\* The interior cells of the room: tagged with the room and as interior, and
\* Floor or Door now.
InteriorCells(room) ==
    {p \in Canvas : /\ RoomLabel(room) \in labels[p[2]][p[1]]
                    /\ InteriorLabel \in labels[p[2]][p[1]]
                    /\ grid[p[2]][p[1]] \in Accessible}

\* p comes before q when the canvas is read row by row.
RowMajorBefore(p, q) == p[2] < q[2] \/ (p[2] = q[2] /\ p[1] < q[1])

\* The cell of I with the least Dist, the first one in row-major order on ties.
Nearest(I, Dist(_)) ==
    CHOOSE p \in I : \A q \in I :
        q # p => (Dist(p) < Dist(q) \/ (Dist(p) = Dist(q) /\ RowMajorBefore(p, q)))

\* The sum of coordinate i over the cells of S.
RECURSIVE SumCoord(_, _)
SumCoord(S, i) ==
    IF S = {} THEN 0
    ELSE LET p == CHOOSE q \in S : TRUE IN p[i] + SumCoord(S \ {p}, i)

\* Manhattan distance from p to the mean of the cells of I, times the number
\* of cells.
CentroidDistance(I, p) ==
    LET n == Cardinality(I)
        sx == SumCoord(I, 1)
        sy == SumCoord(I, 2)
    IN  Abs(n * p[1] - sx) + Abs(n * p[2] - sy)

\* Manhattan distance from p to the midpoint of the bounding box of I, both
\* coordinates of the midpoint rounded down.
BoxMidpointDistance(I, p) ==
    LET xs == {q[1] : q \in I}
        ys == {q[2] : q \in I}
    IN  Abs(p[1] - ((SetMin(xs) + SetMax(xs)) \div 2))
          + Abs(p[2] - ((SetMin(ys) + SetMax(ys)) \div 2))

\* The cell where a spawn with offset (dx, dy) from best records its entity.
OffsetOrBest(best, dx, dy) ==
    IF /\ <<best[1] + dx, best[2] + dy>> \in Canvas
       /\ grid[best[2] + dy][best[1] + dx] \in Accessible
    THEN <<best[1] + dx, best[2] + dy>>
    ELSE best

\* C31 as stated: a successful spawn with a target room records the entity at
\* the interior cell nearest (Manhattan, first in row-major order on ties) to the
\* centroid of the room's interior cells, moved by (dx, dy) when the moved cell
\* is in bounds and Floor or Door.
SpawnAtCentroid ==
    [][\A c \in RoomSpawnCommands :
          SpawnStep(c) =>
              LET I == InteriorCells(Value(c.in_room))
                  D(p) == CentroidDistance(I, p)
              IN  <<Spawned(c).x, Spawned(c).y>> = OffsetOrBest(Nearest(I, D), c.dx, c.dy)]_vars

\* C31, amended: the reference point is the midpoint of the bounding box of the
\* room's interior cells, rounded down; the rest is as stated.
SpawnAtBoxMidpoint ==
    [][\A c \in RoomSpawnCommands :
          SpawnStep(c) =>
              LET I == InteriorCells(Value(c.in_room))
                  D(p) == BoxMidpointDistance(I, p)
              IN  /\ I # {}
                  /\ <<Spawned(c).x, Spawned(c).y>> = OffsetOrBest(Nearest(I, D), c.dx, c.dy)
                  /\ Spawned(c).properties = c.properties]_vars

\* An entity spawned into a room stands on the cell its offset leads to, away
\* from the nearest interior cell; the room's interior has several cells.
SpawnAtBoxMidpointWitness ==
    /\ pc = "done"
    /\ ~NoGrid(self)
    /\ \E c \in RoomSpawnCommands :
          LET I == InteriorCells(Value(c.in_room))
              D(p) == BoxMidpointDistance(I, p)
          IN  /\ Cardinality(I) >= 2
              /\ OffsetOrBest(Nearest(I, D), c.dx, c.dy) # Nearest(I, D)
              /\ DictHas(entities, c.entity)
              /\ \E j \in 1..Len(store[DictGet(entities, c.entity)]) :
                    LET e == store[DictGet(entities, c.entity)][j]
                    IN  <<e.x, e.y>> = OffsetOrBest(Nearest(I, D), c.dx, c.dy)

\* The cells tagged as interior of the room, whatever tile they hold.
InteriorTagged(room) ==
    {p \in Canvas : /\ RoomLabel(room) \in labels[p[2]][p[1]]
                    /\ InteriorLabel \in labels[p[2]][p[1]]}

\* C32: once a grid exists, a spawn naming a room without interior cells (a
\* name never placed, a room too narrow or too low to have an interior, or an
\* interior whose cells all hold non-walkable tiles) fails with the no-interior
\* error, and grid, labels, entities and checkpoints stay as they were.
SpawnNeedsInterior ==
    [][\A c \in RoomSpawnCommands :
          (Running /\ ~NoGrid(self) /\ InteriorCells(Value(c.in_room)) = {} /\ Execute(c)) =>
              /\ FailStep(c)
              /\ error'.message = "has no interior for spawning"
              /\ entities' = entities /\ store' = store
              /\ grid' = grid /\ labels' = labels
              /\ checkpoints' = checkpoints]_vars

\* A spawn has failed for want of an interior in a room that was placed with
\* an interior, every cell of which now holds a non-walkable tile.
SpawnNeedsInteriorWitness ==
    /\ pc = "failed"
    /\ ~NoGrid(self)
    /\ error.command \in RoomSpawnCommands
    /\ error.message = "has no interior for spawning"
    /\ InteriorTagged(Value(error.command.in_room)) # {}
    /\ InteriorCells(Value(error.command.in_room)) = {}
    /\ entities = <<>>

(***************************************************************************)
(* checkpoint and the commands after it.                                   *)
(***************************************************************************)
\* The builder with its recorded checkpoints taken away.
WithoutCheckpoints(b) == [b EXCEPT !.checkpoints = <<>>, !.last_checkpoint = None]

\* What the commands after c find when c is executed on b: whether the run
\* goes on, and the grid, labels and entities.
LaterCommandsRead(b, c) ==
    LET r == execute_command(b, c)
    IN  [ok |-> r.ok, grid |-> r.b.grid, labels |-> r.b.labels,
         entities |-> EntitiesValue(r.b.entities, r.b.store)]

\* No command other than checkpoint reads the recorded checkpoints.
CheckpointsUnread ==
    pc = "exec" =>
        \A c \in SmallCommands \ SmallCheckpointCommands :
            LaterCommandsRead(self, c) = LaterCommandsRead(WithoutCheckpoints(self), c)

\* C33 as stated: a checkpoint command changes nothing that later commands
\* read, so the run goes on after it as if it were not in the list: grid,
\* labels and entities are the same after it as before it, and no other command
\* reads the recorded checkpoints.
CheckpointIsTransparent ==
    /\ []CheckpointsUnread
    /\ [][\A c \in SmallCheckpointCommands :
             (Running /\ Execute(c)) =>
                 /\ pc' # "failed"
                 /\ grid' = grid /\ labels' = labels
                 /\ EntitiesValue(entities', store') = EntitiesValue(entities, store)]_vars

\* C33, amended: a checkpoint executed once a grid exists succeeds and leaves
\* grid, labels and entities as they were, and no other command reads the
\* recorded checkpoints; a checkpoint executed before the grid command fails
\* and ends the run there.
CheckpointTransparentOnGrid ==
    /\ []CheckpointsUnread
    /\ [][\A c \in SmallCheckpointCommands :
             (Running /\ Execute(c)) =>
                 IF NoGrid(self)
                 THEN /\ FailStep(c)
                      /\ error'.message = "Cannot checkpoint without grid"
                 ELSE /\ OkStep(c)
                      /\ pc' # "failed"
                      /\ grid' = grid /\ labels' = labels
                      /\ entities' = entities /\ store' = store
                      /\ Len(checkpoint_outputs') = Len(checkpoint_outputs) + 1]_vars

\* A checkpoint was recorded between a room and a spawn into that room: the
\* run has finished with the room, the entity and the checkpoint.
CheckpointTransparentOnGridWitness ==
    /\ pc = "done"
    /\ checkpoints # <<>>
    /\ Len(checkpoint_outputs) = 1
    /\ \E room \in RoomNames : InteriorCells(room) # {}
    /\ entities # <<>>
    /\ \E k \in 1..Len(checkpoints) : checkpoints[k].val.entities_state = <<>>

(***************************************************************************)
(* The connectivity analysis of shared/connectivity.py on small grids of   *)
(* the declared dimensions.                                                *)
(***************************************************************************)
RegionWidth == 3
RegionHeight == 2

RegionGrids == [0..(RegionHeight - 1) -> [0..(RegionWidth - 1) -> {WALL, FLOOR, DOOR}]]

RegionMaps ==
    {[width |-> RegionWidth, height |-> RegionHeight, tiles |-> JoinRows(g),
      entities |-> <<>>, metadata |-> <<>>] : g \in RegionGrids}

RegionInit ==
    /\ InitBuilder(DefaultWidth, DefaultHeight)
    /\ n_commands = 0
    /\ command_index = 0
    /\ checkpoint_outputs = <<>>
    /\ pc = "mapped"
    /\ prompt = CavePrompt
    /\ error = None
    /\ map_data \in RegionMaps
    /\ report = None
    /\ llm_queries = 0
    /\ analysis = NoAnalysis
    /\ driver = NoDriver
    /\ twin = NoTwin
    /\ stroke = NoStroke

\* connectivity.count_reachable_tiles(tiles, width, height)
CountReachableTiles ==
    /\ AnalysisStep
    /\ analysis.reachable = None
    /\ analysis' = [analysis EXCEPT !.reachable =
                       Some(count_reachable_tiles(map_data.tiles, map_data.width,
                                                  map_data.height))]

\* connectivity.find_isolated_regions(tiles, width, height)
FindIsolatedRegions ==
    /\ AnalysisStep
    /\ analysis.regions = None
    /\ analysis' = [analysis EXCEPT !.regions =
                       Some(find_isolated_regions(map_data.tiles, map_data.width,
                                                  map_data.height))]

\* connectivity.get_connectivity_stats(tiles, width, height)
GetConnectivityStats ==
    /\ AnalysisStep
    /\ analysis.stats = None
    /\ analysis' = [analysis EXCEPT !.stats =
                       Some(get_connectivity_stats(map_data.tiles, map_data.width,
                                                   map_data.height))]

RegionNext ==
    \/ CheckMapConnectivity
    \/ CountReachableTiles
    \/ FindIsolatedRegions
    \/ GetConnectivityStats

RegionSpec == RegionInit /\ [][RegionNext]_vars

\* The Floor-or-Door cells of the map under analysis, as <<x, y>> from 0.
MapAccessible ==
    {p \in (0..(map_data.width - 1)) \X (0..(map_data.height - 1)) :
        SplitLines(map_data.tiles)[p[2] + 1][p[1] + 1] \in Accessible}

\* The cells of a region, as a set.
TilesOf(region) == {region.tiles[k] : k \in 1..Len(region.tiles)}

\* C34: the regions found partition the Floor-or-Door cells into the maximal
\* 4-connected components: every accessible cell is in exactly one region and
\* no other cell is in any, two cells are in one region iff a path of
\* N/E/S/W-adjacent accessible cells joins them, a region's size is the number
\* of its cells, and no region is larger than the one before it.
RegionsAreComponents ==
    analysis.regions # None =>
        LET regions == Value(analysis.regions)
        IN  /\ \A p \in MapAccessible :
                  Cardinality({k \in 1..Len(regions) : p \in TilesOf(regions[k])}) = 1
            /\ \A k \in 1..Len(regions) :
                  /\ TilesOf(regions[k]) \subseteq MapAccessible
                  /\ regions[k].size = Cardinality(TilesOf(regions[k]))
                  /\ regions[k].size = Len(regions[k].tiles)
                  /\ regions[k].size >= 1
                  /\ \A p \in TilesOf(regions[k]) :
                        TilesOf(regions[k]) = Closure(MapAccessible, {p})
            /\ \A k \in 1..(Len(regions) - 1) : regions[k].size >= regions[k + 1].size

\* The regions of a grid whose first accessible cell stands alone: it touches
\* a larger region only by a corner, and that region is listed first.
RegionsAreComponentsWitness ==
    /\ analysis.regions # None
    /\ Len(Value(analysis.regions)) = 2
    /\ Value(analysis.regions)[1].size > Value(analysis.regions)[2].size
    /\ FirstCell(MapAccessible) \in TilesOf(Value(analysis.regions)[2])
    /\ \E p \in TilesOf(Value(analysis.regions)[1]) :
          LET q == FirstCell(MapAccessible)
          IN  Abs(p[1] - q[1]) = 1 /\ Abs(p[2] - q[2]) = 1

\* C35 as stated: the fully_connected flag of the statistics equals
\* is_fully_connected on every grid of the declared dimensions, also on a grid
\* without a Floor or Door cell, and the reachable count is the size of the
\* set the search of is_fully_connected reaches (0 without a start cell).
StatsAgreeWithFullyConnected ==
    /\ analysis.reachable # None =>
          Value(analysis.reachable) =
              IF MapAccessible = {} THEN 0
              ELSE Cardinality(Closure(MapAccessible, {FirstCell(MapAccessible)}))
    /\ (analysis.stats # None /\ analysis.is_fully_connected # None) =>
          /\ Value(analysis.stats).reachable =
                IF MapAccessible = {} THEN 0
                ELSE Cardinality(Closure(MapAccessible, {FirstCell(MapAccessible)}))
          /\ Value(analysis.stats).total_accessible = Cardinality(MapAccessible)
          /\ Value(analysis.stats).fully_connected = Value(analysis.is_fully_connected)

(***************************************************************************)
(* Commands that fail.                                                     *)
(***************************************************************************)
\* The errors a command raises once a grid exists, and grid's own.
CommandFailures ==
    {"Grid must be", "exceeds bounds", "not found", "Wall too short", "Invalid offset",
     "Could not find walls to connect", "has no interior for spawning",
     "River requires at least 2 points"}

\* C36: a command that fails leaves grid, labels, entities and checkpoints
\* exactly as they were before it, whichever check it fails: the size of
\* grid, the bounds of room, the room, wall length or offset of door_on, the
\* walls of connect_by_walls, the interior for spawn, the points of river.
FailedCommandWritesNothing ==
    [][(Running /\ pc' = "failed") =>
          /\ ~execute_command(self, error'.command).ok
          /\ error'.message = execute_command(self, error'.command).out
          /\ error'.message \in CommandFailures \cup GridNotInitialized
          /\ grid' = grid /\ labels' = labels
          /\ entities' = entities /\ store' = store
          /\ checkpoints' = checkpoints /\ last_checkpoint' = last_checkpoint
          /\ checkpoint_outputs' = checkpoint_outputs]_vars

\* A room out of bounds has failed on a grid that holds a room, an entity and
\* a recorded checkpoint or a door.
FailedCommandWritesNothingWitness ==
    /\ pc = "failed"
    /\ error.message = "exceeds bounds"
    /\ \E room \in RoomNames : Placed(room)
    /\ entities # <<>>

(***************************************************************************)
(* The retry loop of generate_map.                                         *)
(***************************************************************************)
\* What is left of the loop: the passes the iteration counter still allows and
\* the return after the loop, nothing once generate_map has returned or raised.
PassesLeft ==
    IF pc = "driving" THEN driver.max_iterations - driver.iteration + 1 ELSE 0

\* generate_map runs its loop without waiting for anything: while it has not
\* returned or raised, its next pass is possible and is taken.  This is weak
\* fairness of DriverNext, written with the condition under which a pass is
\* possible (generate_map is still in its loop) instead of ENABLED.
DriverFairSpec ==
    /\ DriverInit
    /\ [][DriverNext]_vars
    /\ ([]<>(pc # "driving") \/ []<><<DriverNext>>_vars)

\* C37: the retry loop ends after at most max_retries queries of the language
\* model: a pass of the loop queries the model once and then returns a map or
\* adds one to the iteration counter, whatever the answer leads to (a program
\* that is accepted, one with a checkpoint issue or without checkpoint, an
\* execution error, any other exception); so every step of generate_map leaves
\* fewer passes than it found, the queries never exceed max_retries, and
\* generate_map leaves the loop for good.
RetryLoopTerminates ==
    /\ [](/\ driver.queries <= driver.max_iterations
          /\ driver.iteration <= driver.max_iterations
          /\ PassesLeft >= 0)
    /\ [][/\ PassesLeft' < PassesLeft
          /\ (pc = "driving" /\ driver.iteration < driver.max_iterations) =>
                /\ driver'.queries = driver.queries + 1
                /\ \/ pc' = "mapped" /\ driver'.iteration = driver.iteration
                   \/ pc' = "driving" /\ driver'.iteration = driver.iteration + 1
          /\ (pc = "driving" /\ driver.iteration >= driver.max_iterations) =>
                (pc' # "driving" /\ driver'.queries = driver.queries)]_vars
    /\ <>[](pc # "driving")

\* generate_map has left the loop with its budget of queries used up, the
\* last answer having raised an exception.
RetryLoopTerminatesWitness ==
    /\ pc # "driving"
    /\ driver.max_iterations = MaxRetries
    /\ driver.queries = MaxRetries
    /\ driver.iteration = MaxRetries
    /\ driver.last_successful_builder # None

(***************************************************************************)
(* grid issued again.                                                      *)
(***************************************************************************)
\* C38: a grid command issued on an existing grid resets every tile to the
\* bordered layout and clears every label, and keeps the entity map and the
\* recorded checkpoints; the map made afterwards holds the entities spawned
\* before the reset, at their old coordinates.
GridResetKeepsEntities ==
    /\ [][\A c \in SmallGridCommands :
             (OkStep(c) /\ ~NoGrid(self)) =>
                 /\ FreshCanvas(grid', labels')
                 /\ entities' = entities /\ store' = store
                 /\ checkpoints' = checkpoints /\ last_checkpoint' = last_checkpoint]_vars
    /\ [][(pc = "done" /\ pc' = "mapped") =>
             /\ map_data'.entities = EntitiesValue(entities, store)
             /\ map_data'.tiles = JoinRows(grid)]_vars

\* The map of a canvas as a grid command leaves it holds an entity away from
\* the canvas centre: it was spawned while the canvas held something that a
\* later grid command wiped out.
GridResetKeepsEntitiesWitness ==
    /\ pc = "mapped"
    /\ FreshCanvas(grid, labels)
    /\ map_data.entities # <<>>
    /\ \E k \in 1..Len(map_data.entities) : \E j \in 1..Len(map_data.entities[k].val) :
          <<map_data.entities[k].val[j].x, map_data.entities[k].val[j].y>>
              # <<target_width \div 2, target_height \div 2>>

(***************************************************************************)
(* The line stepping of the river command, one pass of the loop at a time, *)
(* on a canvas that a grid command has just initialised.                   *)
(***************************************************************************)
LineMargin == 1

\* The end points of a segment: the cells of the canvas and a margin around it.
LinePoints ==
    ((0 - LineMargin)..(SmallWidth - 1 + LineMargin))
        \X ((0 - LineMargin)..(SmallHeight - 1 + LineMargin))

\* No pass is taken beyond this number.
MaxPasses == SmallWidth + SmallHeight + 4 * LineMargin

LineInit ==
    /\ target_width = SmallWidth
    /\ target_height = SmallHeight
    /\ grid = NewGrid(SmallWidth, SmallHeight)
    /\ labels = [i \in 0..(SmallHeight - 1) |-> [j \in 0..(SmallWidth - 1) |-> {}]]
    /\ entities = <<>>
    /\ store = <<>>
    /\ checkpoints = <<>>
    /\ last_checkpoint = None
    /\ n_commands = 1
    /\ command_index = 1
    /\ checkpoint_outputs = <<>>
    /\ pc = "river"
    /\ prompt = CavePrompt
    /\ error = None
    /\ map_data = None
    /\ report = None
    /\ llm_queries = 0
    /\ analysis = NoAnalysis
    /\ driver = NoDriver
    /\ twin = NoTwin
    /\ \E p \in LinePoints, q \in LinePoints, half_width \in {0, 1} :
          stroke = line_start(p[1], p[2], q[1], q[2], half_width)

\* One pass of the loop of draw_line: the brush at (x, y), then the break or
\* the step.
DrawPass ==
    /\ pc = "river"
    /\ ~stroke.returned
    /\ stroke.passes < MaxPasses
    /\ grid' = Brush(self, grid, stroke.x, stroke.y, stroke.half_width)
    /\ stroke' = line_step(stroke)
    /\ UNCHANGED <<target_width, target_height, labels, entities, store, checkpoints,
                   last_checkpoint, n_commands, command_index, checkpoint_outputs, pc,
                   prompt, error, map_data, report, llm_queries, analysis, driver, twin>>

LineNext == DrawPass

LineSpec == LineInit /\ [][LineNext]_vars

\* The while loop of draw_line runs on without waiting for anything.
LineFairSpec == LineInit /\ [][LineNext]_vars /\ WF_vars(DrawPass)

\* The number of steps of one cell (diagonal steps included) from p to q.
StepsBetween(px, py, qx, qy) == Max2(Abs(qx - px), Abs(qy - py))

\* The cells the brush covers at (x, y), inside the border ring.
Brushed(x, y, half_width) ==
    {p \in Canvas \ BorderRing :
        Abs(p[1] - x) <= half_width /\ Abs(p[2] - y) <= half_width}

\* C39: the line stepping ends for every pair of points: it starts at the
\* first point, every pass that does not end it moves the position one step
\* nearer to the second point, it ends at the second point exactly, after as
\* many passes as the points are steps apart plus one, the brush has covered
\* both end points then, and the loop does end.
LineReachesSecondPoint ==
    /\ [](pc = "river" =>
            /\ stroke.passes = 0 => (stroke.x = stroke.x0 /\ stroke.y = stroke.y0)
            /\ ~stroke.returned =>
                  stroke.passes + StepsBetween(stroke.x, stroke.y, stroke.x1, stroke.y1)
                      = StepsBetween(stroke.x0, stroke.y0, stroke.x1, stroke.y1)
            /\ stroke.returned =>
                  /\ stroke.x = stroke.x1 /\ stroke.y = stroke.y1
                  /\ stroke.passes
                        = StepsBetween(stroke.x0, stroke.y0, stroke.x1, stroke.y1) + 1
                  /\ \A p \in Brushed(stroke.x0, stroke.y0, stroke.half_width)
                              \cup Brushed(stroke.x1, stroke.y1, stroke.half_width) :
                        grid[p[2]][p[1]] = WATER
                  /\ grid = draw_line(self, NewGrid(SmallWidth, SmallHeight),
                                      stroke.half_width, stroke.x0, stroke.y0,
                                      stroke.x1, stroke.y1))
    /\ [][(pc = "river" /\ ~stroke.returned) =>
             (stroke'.returned \/
              StepsBetween(stroke'.x, stroke'.y, stroke.x1, stroke.y1)
                  = StepsBetween(stroke.x, stroke.y, stroke.x1, stroke.y1) - 1)]_vars
    /\ <>[](stroke.returned)

\* A line from a point right of the canvas to a point above it, neither
\* straight nor diagonal, has been stepped to its end, and water lies on the
\* canvas.
LineReachesSecondPointWitness ==
    /\ pc = "river"
    /\ stroke.returned
    /\ stroke.x0 = SmallWidth /\ stroke.y1 = -1
    /\ stroke.dx > 1
    /\ 0 - stroke.dy > stroke.dx
    /\ \E p \in Canvas : grid[p[2]][p[1]] = WATER

(***************************************************************************)
(* The quantitative score.                                                 *)
(***************************************************************************)
\* C40 as stated: for every map and prompt the quantitative verification
\* yields a score, and the score lies between 0 and 10 (in units of 1/1000).
QuantitativeScoreInRange ==
    pc \in {"mapped", "verified"} =>
        LET q == quantitative_verification(prompt, coerce_map(map_data))
        IN  /\ ~q.raised
            /\ 0 <= q.score /\ q.score <= 10000

=============================================================================
